---- MODULE Spec2Model ----
(***************************************************************************)
(* Specification-compliance core of the AI debug assistant: MatchIndex,    *)
(* Comparator (compare) and ScoreEngine (score).                           *)
(*                                                                         *)
(* Names are sequences of one-character strings so that lower-casing and   *)
(* trimming are computed character by character.  An entity is a record    *)
(* whose domain holds "name" and whichever optional attributes it carries  *)
(* (a JSON object); attribute values are JSON literals as text, so the     *)
(* configurable flag is "true" or "false".  Scores and weights are         *)
(* integers: weights in hundredths of a point, health_score in tenths.     *)
(***************************************************************************)
EXTENDS Integers, Sequences, FiniteSets, TLC

VARIABLES
    spec,       \* the EnhancedSpecification handed to compare: [present, data]
    impl,       \* the FeatureMap handed to compare: [present, data]
    clock,      \* the wall clock read for metadata.comparison_timestamp
    results,    \* the outcome of every compare call made so far, in call order
    sreport,    \* the ComparisonReport findings handed to score
    ssummary,   \* <<>> before score has run, <<Summary>> after
    sprev,      \* <<>> or <<health_score of the report before the last finding was added>>
    dinput,     \* what a debug run was given: [report, scans, log, ui]
    bugs,       \* <<>> before classify has run, <<Bug list>> after
    fixes,      \* the Fixes synthesize has returned so far, in call order
    fixpos,     \* position in the Bug list of the next Bug handed to synthesize
    rsummary,   \* <<>> before the RunSummary is built, <<RunSummary>> after
    analysisData,   \* Dashboard state: <<>> for null, <<analysis result>> otherwise
    selectedFix,    \* CodeDiffViewer state: "" for null, else the selected fix id
    emitted,        \* the notifications handed to addNotification, in call order
    showWelcome,    \* Dashboard state: "true" while the welcome screen is shown
    lastCall,       \* the last fix handler called and its argument
    pfound,         \* per category, <<>> or <<findings of its finished comparison>>
    pdone,          \* the categories whose comparison has finished, in completion order
    preport,        \* <<>> or <<the report combined from the six comparisons>>
    ptable,         \* the categories that have a fix generator, shared by all runs
    runs,           \* per concurrent run: its input, stage and what it has produced
    originalSpec,   \* ProjectUpload state: the text of the specification
    enhancedSpec,   \* ProjectUpload state: "" or the generated text
    uploadedFiles,  \* ProjectUpload state: the file entries, in list order
    isAnalyzing,    \* ProjectUpload state
    analysisProgress,   \* ProjectUpload state
    currentStep,    \* ProjectUpload state
    task,           \* the startAnalysis call under way: where it waits, the state
                    \* values it was called with, how its own enhancement ended
    manual,         \* enhanceSpec calls started by the button and not yet settled
    timers,         \* 2-second reset timers set and not yet fired
    calls,          \* the last startAnalysis call: its verdict, what it has handed
                    \* over and announced, and the number of calls accepted
    lastResult,     \* <<>> or the last analysis result handed to onAnalysisComplete
    uploads,        \* the handleFileUpload calls under way: type, file names,
                    \* index and entry id of the file being uploaded
    removed,        \* the ids removeFile was called with
    fileNote,       \* <<>> or the last notification of handleFileUpload
    notifications,  \* NotificationSystem's notifications prop
    ntimers,        \* the timers set by the effect and not yet fired: [id, due]
    ntime,          \* the time, in milliseconds
    seen,           \* per notification id, its duration and when it was added
    timedOut        \* the ids onRemove was called with by a timer

dvars == <<dinput, bugs, fixes, fixpos, rsummary>>

dashvars == <<analysisData, selectedFix, emitted, showWelcome, lastCall>>

parvars == <<pfound, pdone, preport>>

runvars == <<ptable, runs>>

upvars == <<originalSpec, enhancedSpec, uploadedFiles, isAnalyzing, analysisProgress,
            currentStep, task, manual, timers, calls, lastResult>>

filevars == <<uploads, removed, fileNote>>

notevars == <<notifications, ntimers, ntime, seen, timedOut>>

corevars == <<spec, impl, clock, results, sreport, ssummary, sprev>>

extvars == <<dashvars, parvars, runvars, upvars, filevars, notevars>>

notdash == <<corevars, dvars, parvars, runvars, upvars, filevars, notevars>>

notup == <<corevars, dvars, dashvars, parvars, runvars, filevars, notevars>>

notnotify == <<corevars, dvars, dashvars, parvars, runvars, upvars, filevars>>

notfiles == <<spec, impl, results, sreport, ssummary, sprev, dvars, dashvars, parvars,
              runvars, notevars>>

notpar == <<sreport, ssummary, sprev, dvars, dashvars, runvars, upvars, filevars,
            notevars>>

vars == <<spec, impl, clock, results, sreport, ssummary, sprev, dinput, bugs, fixes,
          fixpos, rsummary, analysisData, selectedFix, emitted, showWelcome,
          lastCall, pfound, pdone, preport, ptable, runs, originalSpec,
          enhancedSpec, uploadedFiles, isAnalyzing, analysisProgress, currentStep,
          task, manual, timers, calls, lastResult, uploads, removed, fileNote,
          notifications, ntimers, ntime, seen, timedOut>>

---------------------------------------------------------------------------
(* Bounds of the model *)

MaxLen == 2         \* longest entity list of the category under comparison
MaxTotal == 3       \* spec entities + impl entities of that category
MaxTotalBg == 2     \* the same, when the other categories hold entities too
MaxClock == 1       \* clock ticks observed
MaxMissing == 2     \* findings per list of a report handed to score
MaxDev == 2
MaxLogical == 4
MaxExtra == 1
MaxEntries == 3     \* entries of all sources handed to classify
MaxPerSource == 2   \* entries of one source

---------------------------------------------------------------------------
(* Names and their normalisation (name.lower().strip()) *)

NameUpper == <<"A", "b">>
NamePadded == <<" ", "a", "B", " ">>
NameInner == <<"a", " ", "b">>
Names == {NameUpper, NamePadded, NameInner}

LowerChar(c) == CASE c = "A" -> "a" [] c = "B" -> "b" [] c = "C" -> "c" [] OTHER -> c

IsSpace(c) == c = " "

ToLower(s) == [k \in 1..Len(s) |-> LowerChar(s[k])]

RECURSIVE LStrip(_)
LStrip(s) == IF s = <<>> THEN s
             ELSE IF IsSpace(Head(s)) THEN LStrip(Tail(s)) ELSE s

RECURSIVE RStrip(_)
RStrip(s) == IF s = <<>> THEN s
             ELSE IF IsSpace(s[Len(s)]) THEN RStrip(SubSeq(s, 1, Len(s) - 1)) ELSE s

Trim(s) == RStrip(LStrip(s))

NormalizeNameCaseSensitive(name) == Trim(name)

NormalizeName(name) == Trim(ToLower(name))

---------------------------------------------------------------------------
(* The six category pairs, in the fixed category order *)

NumCategories == 6

\* compare is called twice on the same inputs
NumCalls == 2

SpecField == <<"core_features", "ui_components", "api_endpoints",
               "data_flow", "business_rules", "security_requirements">>

ImplField == <<"features", "ui_components", "api_endpoints",
               "data_flow", "business_logic", "security_features">>

CategoryTag == <<"core_feature", "ui_component", "api_endpoint",
                 "data_flow", "business_rule", "security_requirement">>

Categories == 1..NumCategories

DataFlowCat == 4
SecurityCat == 6

SpecFields == {SpecField[c] : c \in Categories}
ImplFields == {ImplField[c] : c \in Categories}

Has(e, a) == a \in DOMAIN e

Attr(e, a, default) == IF Has(e, a) THEN e[a] ELSE default

Idx(n) == [k \in 1..n |-> k]

---------------------------------------------------------------------------
(* MatchIndex *)

Key(e) == NormalizeName(e.name)

HasKey(entities, key) == \E k \in 1..Len(entities) : Key(entities[k]) = key

IndexLookupLast(entities, key) ==
    CHOOSE k \in 1..Len(entities) :
        /\ Key(entities[k]) = key
        /\ \A j \in (k + 1)..Len(entities) : Key(entities[j]) # key

\* the index maps a key to the first entity carrying it
IndexLookup(entities, key) ==
    CHOOSE k \in 1..Len(entities) :
        /\ Key(entities[k]) = key
        /\ \A j \in 1..(k - 1) : Key(entities[j]) # key

\* positions (into specEntities / implEntities) of the three results
Match(specEntities, implEntities) ==
    LET sIdx == Idx(Len(specEntities))
        iIdx == Idx(Len(implEntities))
        hit(k) == HasKey(implEntities, Key(specEntities[k]))
        matchedSpec == SelectSeq(sIdx, hit)
        won(j) == /\ HasKey(specEntities, Key(implEntities[j]))
                  /\ IndexLookup(implEntities, Key(implEntities[j])) = j
    IN  [ matchedPairs |->
            [t \in 1..Len(matchedSpec) |->
                [s |-> matchedSpec[t],
                 i |-> IndexLookup(implEntities, Key(specEntities[matchedSpec[t]]))]],
          unmatchedSpec |-> SelectSeq(sIdx, LAMBDA k : ~hit(k)),
          unmatchedImpl |-> SelectSeq(iIdx, LAMBDA j : ~won(j)) ]

---------------------------------------------------------------------------
(* ScoreEngine *)

Severities == {"critical", "high", "medium", "low"}

\* penalty per occurrence, in hundredths of a point
WeightCritical == 2500
WeightHigh == 890
WeightMedium == 500
WeightLow == 250

Weight(sev) == CASE sev = "critical" -> WeightCritical
                 [] sev = "high" -> WeightHigh
                 [] sev = "medium" -> WeightMedium
                 [] OTHER -> WeightLow

FullScore == 10000      \* 100 points, in hundredths

\* the severity under which each finding is counted, list by list; the
\* extra_features list contributes nothing to the distribution
SeverityOfMissingByPriority(f) == f.priority

SeverityOfMissing(f) == f.impact

CountedSeveritiesWithExtra(findings) ==
    [k \in 1..Len(findings.missing_features) |->
        SeverityOfMissing(findings.missing_features[k])]
    \o [k \in 1..Len(findings.deviations) |-> findings.deviations[k].severity]
    \o [k \in 1..Len(findings.logical_mismatches) |->
        findings.logical_mismatches[k].severity]
    \o [k \in 1..Len(findings.extra_features) |-> findings.extra_features[k].impact]

CountedSeverities(findings) ==
    [k \in 1..Len(findings.missing_features) |->
        SeverityOfMissing(findings.missing_features[k])]
    \o [k \in 1..Len(findings.deviations) |-> findings.deviations[k].severity]
    \o [k \in 1..Len(findings.logical_mismatches) |->
        findings.logical_mismatches[k].severity]

CountOf(sevs, sev) == Cardinality({k \in 1..Len(sevs) : sevs[k] = sev})

SeverityDistribution(findings) ==
    [sev \in Severities |-> CountOf(CountedSeverities(findings), sev)]

Penalty(dist) ==
    Weight("critical") * dist["critical"] + Weight("high") * dist["high"]
    + Weight("medium") * dist["medium"] + Weight("low") * dist["low"]

\* hundredths -> tenths, half up
RoundToTenths(x) == (x + 5) \div 10

HealthScoreUnfloored(dist) == RoundToTenths(FullScore - Penalty(dist))

HealthScore(dist) ==
    LET raw == FullScore - Penalty(dist)
    IN  RoundToTenths(IF raw < 0 THEN 0 ELSE raw)

\* thresholds on the score in tenths
OverallStatusAbove(score) ==
    IF score > 800 THEN "Good"
    ELSE IF score > 600 THEN "Needs Attention"
    ELSE IF score > 400 THEN "Poor"
    ELSE "Critical Issues Found"

OverallStatus(score) ==
    IF score >= 800 THEN "Good"
    ELSE IF score >= 600 THEN "Needs Attention"
    ELSE IF score >= 400 THEN "Poor"
    ELSE "Critical Issues Found"

RecMissing == "Implement missing core features to meet specification requirements"
RecLogical == "Review and fix logical mismatches to ensure proper functionality"
RecDeviation == "Address implementation deviations to align with specification"

RecommendationsInListOrder(findings) ==
    (IF Len(findings.missing_features) > 0 THEN <<RecMissing>> ELSE <<>>)
    \o (IF Len(findings.deviations) > 0 THEN <<RecDeviation>> ELSE <<>>)
    \o (IF Len(findings.logical_mismatches) > 0 THEN <<RecLogical>> ELSE <<>>)

Recommendations(findings) ==
    (IF Len(findings.missing_features) > 0 THEN <<RecMissing>> ELSE <<>>)
    \o (IF Len(findings.logical_mismatches) > 0 THEN <<RecLogical>> ELSE <<>>)
    \o (IF Len(findings.deviations) > 0 THEN <<RecDeviation>> ELSE <<>>)

TotalIssues(findings) ==
    Len(findings.missing_features) + Len(findings.deviations)
    + Len(findings.logical_mismatches)

Score(findings) ==
    LET dist == SeverityDistribution(findings)
        health == HealthScore(dist)
    IN  [ total_issues |-> TotalIssues(findings),
          missing_features_count |-> Len(findings.missing_features),
          deviations_count |-> Len(findings.deviations),
          logical_mismatches_count |-> Len(findings.logical_mismatches),
          extra_features_count |-> Len(findings.extra_features),
          severity_distribution |-> dist,
          health_score |-> health,
          overall_status |-> OverallStatus(health),
          recommendations |-> Recommendations(findings) ]

---------------------------------------------------------------------------
(* Comparator *)

DefaultPriority == "medium"

MissingFindingNoDefault(c, e) ==
    [ type |-> CategoryTag[c], name |-> e.name,
      priority |-> Attr(e, "priority", "low"),
      impact |-> Attr(e, "impact", "low") ]

MissingFinding(c, e) ==
    [ type |-> CategoryTag[c], name |-> e.name,
      priority |-> Attr(e, "priority", DefaultPriority),
      impact |-> Attr(e, "impact", DefaultPriority) ]

ExtraRecommendation == "Consider if this feature adds value or should be removed"

ExtraFinding(e) ==
    [ type |-> "extra_feature", name |-> e.name, impact |-> "low",
      recommendation |-> ExtraRecommendation ]

ConfigLabelRaw(flag) == flag

\* the configurable flag as the report words it
ConfigLabel(flag) == IF flag = "true" THEN "configurable" ELSE "hardcoded"

\* a field takes part in the diff only when both entities carry it
Differs(s, sa, i, ia) == Has(s, sa) /\ Has(i, ia) /\ s[sa] # i[ia]

ConfigSeverity == "medium"
ApproachSeverity == "low"
StylingSeverity == "low"

\* the Deviation findings of one matched pair, field by field
PairDeviations(s, i) ==
    (IF Differs(s, "configurable", i, "configurable")
     THEN << [ type |-> "configuration_deviation", feature |-> s.name,
               expected |-> ConfigLabel(s.configurable),
               actual |-> ConfigLabel(i.configurable),
               severity |-> ConfigSeverity ] >>
     ELSE <<>>)
    \o (IF Differs(s, "implementation_approach", i, "implementation_type")
        THEN << [ type |-> "implementation_deviation", feature |-> s.name,
                  expected |-> s.implementation_approach,
                  actual |-> i.implementation_type,
                  severity |-> ApproachSeverity ] >>
        ELSE <<>>)
    \o (IF Differs(s, "styling", i, "styling")
        THEN << [ type |-> "styling_deviation", feature |-> s.name,
                  expected |-> s.styling, actual |-> i.styling,
                  severity |-> StylingSeverity ] >>
        ELSE <<>>)

RECURSIVE Flatten(_)
Flatten(seqs) == IF seqs = <<>> THEN <<>> ELSE Head(seqs) \o Flatten(Tail(seqs))

CategoryMissing(c, specEntities, m) ==
    [t \in 1..Len(m.unmatchedSpec) |-> MissingFinding(c, specEntities[m.unmatchedSpec[t]])]

\* extras taken from the keys of an index: one per key, duplicates collapsed
CategoryExtraPerKey(implEntities, m) ==
    LET firsts == SelectSeq(m.unmatchedImpl,
                            LAMBDA j : IndexLookup(implEntities, Key(implEntities[j])) = j)
    IN  [t \in 1..Len(firsts) |-> ExtraFinding(implEntities[firsts[t]])]

CategoryExtra(implEntities, m) ==
    [t \in 1..Len(m.unmatchedImpl) |-> ExtraFinding(implEntities[m.unmatchedImpl[t]])]

CategoryDeviations(specEntities, implEntities, m) ==
    Flatten([t \in 1..Len(m.matchedPairs) |->
                PairDeviations(specEntities[m.matchedPairs[t].s],
                               implEntities[m.matchedPairs[t].i])])

\* cross-cutting check: a same-named impl flow whose direction differs
DataFlowMismatches(specFlows, implFlows) ==
    LET hit(k) ==
            /\ HasKey(implFlows, Key(specFlows[k]))
            /\ Differs(specFlows[k], "direction",
                       implFlows[IndexLookup(implFlows, Key(specFlows[k]))], "direction")
        at == SelectSeq(Idx(Len(specFlows)), hit)
    IN  [t \in 1..Len(at) |->
            [ type |-> "data_flow_mismatch", flow |-> specFlows[at[t]].name,
              expected_direction |-> specFlows[at[t]].direction,
              actual_direction |->
                  implFlows[IndexLookup(implFlows, Key(specFlows[at[t]]))].direction,
              severity |-> "high" ]]

SecurityImpact == "Security vulnerability"

SecurityMismatchesHigh(specReqs, implFeatures) ==
    LET at == SelectSeq(Idx(Len(specReqs)),
                        LAMBDA k : ~HasKey(implFeatures, Key(specReqs[k])))
    IN  [t \in 1..Len(at) |->
            [ type |-> "security_requirement_missing",
              requirement |-> specReqs[at[t]].name,
              severity |-> "high", impact |-> SecurityImpact ]]

\* cross-cutting check: a security requirement no impl security feature meets
SecurityMismatches(specReqs, implFeatures) ==
    LET at == SelectSeq(Idx(Len(specReqs)),
                        LAMBDA k : ~HasKey(implFeatures, Key(specReqs[k])))
    IN  [t \in 1..Len(at) |->
            [ type |-> "security_requirement_missing",
              requirement |-> specReqs[at[t]].name,
              severity |-> "critical", impact |-> SecurityImpact ]]

SpecList(s, c) == s.data[SpecField[c]]
ImplList(m, c) == m.data[ImplField[c]]

\* one category pair: MatchIndex.match, then the findings of its three results
CategoryFindings(c, specEntities, implEntities) ==
    LET m == Match(specEntities, implEntities)
    IN  [ missing |-> CategoryMissing(c, specEntities, m),
          deviations |-> CategoryDeviations(specEntities, implEntities, m),
          extra |-> CategoryExtra(implEntities, m) ]

\* the four findings lists: categories in the fixed order, input order within
Findings(s, m) ==
    LET per == << CategoryFindings(1, SpecList(s, 1), ImplList(m, 1)),
                  CategoryFindings(2, SpecList(s, 2), ImplList(m, 2)),
                  CategoryFindings(3, SpecList(s, 3), ImplList(m, 3)),
                  CategoryFindings(4, SpecList(s, 4), ImplList(m, 4)),
                  CategoryFindings(5, SpecList(s, 5), ImplList(m, 5)),
                  CategoryFindings(6, SpecList(s, 6), ImplList(m, 6)) >>
    IN  [ missing_features |-> Flatten([c \in Categories |-> per[c].missing]),
          deviations |-> Flatten([c \in Categories |-> per[c].deviations]),
          logical_mismatches |->
            DataFlowMismatches(SpecList(s, DataFlowCat), ImplList(m, DataFlowCat))
            \o SecurityMismatches(SpecList(s, SecurityCat), ImplList(m, SecurityCat)),
          extra_features |-> Flatten([c \in Categories |-> per[c].extra]) ]

ComparisonVersion == "1.0"

Metadata(s, m, now) ==
    [ comparison_timestamp |-> now,
      enhanced_spec_features |-> Len(SpecList(s, 1)),
      implemented_features |-> Len(ImplList(m, 1)),
      comparison_version |-> ComparisonVersion ]

\* a report whose extra_features order follows an unordered set's iteration,
\* which changes from call to call
BuildReportUnordered(s, m, now) ==
    LET f == Findings(s, m)
        n == Len(f.extra_features)
        g == IF now % 2 = 0 THEN f
             ELSE [f EXCEPT !.extra_features =
                      [k \in 1..n |-> f.extra_features[n + 1 - k]]]
    IN  [ missing_features |-> g.missing_features,
          deviations |-> g.deviations,
          logical_mismatches |-> g.logical_mismatches,
          extra_features |-> g.extra_features,
          summary |-> Score(g),
          metadata |-> Metadata(s, m, now) ]

BuildReport(s, m, now) ==
    LET f == Findings(s, m)
    IN  [ missing_features |-> f.missing_features,
          deviations |-> f.deviations,
          logical_mismatches |-> f.logical_mismatches,
          extra_features |-> f.extra_features,
          summary |-> Score(f),
          metadata |-> Metadata(s, m, now) ]

\* required container fields are all there
WellFormed(s, fields) == s.present /\ fields \subseteq DOMAIN s.data

ValidInputs(s, m) == WellFormed(s, SpecFields) /\ WellFormed(m, ImplFields)

NoEntities(fields) == [present |-> TRUE, data |-> [f \in fields |-> <<>>]]

\* a compare that has already written an (empty) report when it rejects its input
CompareCallPartial(s, m, now) ==
    IF ValidInputs(s, m)
    THEN [ error |-> "none", output |-> << BuildReport(s, m, now) >> ]
    ELSE [ error |-> "InvalidInputError",
           output |-> << BuildReport(NoEntities(SpecFields), NoEntities(ImplFields), now) >> ]

\* compare(spec, impl): one complete report, or InvalidInputError and nothing
CompareCall(s, m, now) ==
    IF ValidInputs(s, m)
    THEN [ error |-> "none", output |-> << BuildReport(s, m, now) >> ]
    ELSE [ error |-> "InvalidInputError", output |-> <<>> ]

---------------------------------------------------------------------------
(* Inputs *)

WithName(profile, n) ==
    [a \in DOMAIN profile \cup {"name"} |-> IF a = "name" THEN n ELSE profile[a]]

NoAttrs == [a \in {} |-> ""]

SpecRich == [ priority |-> "high", impact |-> "medium", configurable |-> "true",
              implementation_approach |-> "drag_and_drop", styling |-> "tailwind",
              direction |-> "upload -> analyze" ]

SpecPlain == [ priority |-> "low", impact |-> "high", configurable |-> "false",
               implementation_approach |-> "basic_form",
               direction |-> "analyze -> upload" ]

ImplSame == [ configurable |-> "true", implementation_type |-> "drag_and_drop",
              styling |-> "tailwind", direction |-> "upload -> process" ]

ImplOther == [ configurable |-> "false", implementation_type |-> "drag_and_drop",
               styling |-> "css_modules", direction |-> "upload -> analyze" ]

\* the entities of the category under comparison
SpecProfiles == {NoAttrs, SpecRich}
ImplProfiles == {NoAttrs, ImplOther}

SpecEntities == {WithName(p, n) : p \in SpecProfiles, n \in Names}
ImplEntities == {WithName(p, n) : p \in ImplProfiles, n \in Names}

ListsOf(S) == UNION {[1..n -> S] : n \in 0..MaxLen}

\* what the categories other than the one under comparison hold
BgSpecName == <<"C">>
BgImplSameName == <<"c", " ">>
BgImplOtherName == <<"d">>

Backgrounds == {"empty", "disjoint", "matched"}

BgSpecList(bg) == IF bg = "empty" THEN <<>> ELSE << WithName(SpecPlain, BgSpecName) >>

BgImplList(bg) ==
    CASE bg = "empty" -> <<>>
      [] bg = "disjoint" -> << WithName(ImplSame, BgImplOtherName) >>
      [] OTHER -> << WithName(ImplSame, BgImplSameName) >>

SpecInput(focus, sl, bg) ==
    [ present |-> TRUE,
      data |-> [f \in SpecFields |-> IF f = SpecField[focus] THEN sl ELSE BgSpecList(bg)] ]

ImplInput(focus, il, bg) ==
    [ present |-> TRUE,
      data |-> [f \in ImplFields |-> IF f = ImplField[focus] THEN il ELSE BgImplList(bg)] ]

Absent == [ present |-> FALSE, data |-> [f \in {} |-> <<>>] ]

Without(input, field) ==
    [ present |-> TRUE, data |-> [f \in DOMAIN input.data \ {field} |-> input.data[f]] ]

EmptyFindings ==
    [ missing_features |-> <<>>, deviations |-> <<>>,
      logical_mismatches |-> <<>>, extra_features |-> <<>> ]

ScoreIdle == sreport = EmptyFindings /\ ssummary = <<>> /\ sprev = <<>>

NoDebugInput ==
    [ report |-> EmptyFindings, scans |-> <<>>, log |-> Absent, ui |-> Absent ]

DebugIdle ==
    /\ dinput = NoDebugInput /\ bugs = <<>> /\ fixes = <<>>
    /\ fixpos = 1 /\ rsummary = <<>>

\* the dashboard before anything is mounted
DashIdle ==
    /\ analysisData = <<>> /\ selectedFix = "" /\ emitted = <<>>
    /\ showWelcome = "false" /\ lastCall = <<"none", "">>

ParIdle == pfound = <<>> /\ pdone = <<>> /\ preport = <<>>

RunsIdle == ptable = {} /\ runs = <<>>

IdleTask == [ pc |-> "idle", originalSpec |-> <<>>, enhancedSpec |-> "",
              uploadedFiles |-> <<>>, enhance |-> "none" ]

NoCalls == [ verdict |-> "none", accepted |-> 0, completes |-> 0,
             successes |-> 0, errors |-> 0 ]

UploadIdle ==
    /\ originalSpec = <<>> /\ enhancedSpec = "" /\ uploadedFiles = <<>>
    /\ isAnalyzing = FALSE /\ analysisProgress = 0 /\ currentStep = ""
    /\ task = IdleTask /\ manual = 0 /\ timers = 0
    /\ calls = NoCalls /\ lastResult = <<>>

FilesIdle == uploads = <<>> /\ removed = {} /\ fileNote = <<>>

NotifyIdle ==
    /\ notifications = <<>> /\ ntimers = {} /\ ntime = 0 /\ seen = <<>>
    /\ timedOut = {}

UiIdle == DashIdle /\ ParIdle /\ RunsIdle /\ UploadIdle /\ FilesIdle /\ NotifyIdle

InitWellFormed ==
    \E focus \in Categories, bg \in Backgrounds,
       sl \in ListsOf(SpecEntities), il \in ListsOf(ImplEntities) :
        /\ Len(sl) + Len(il) <= (IF bg = "empty" THEN MaxTotal ELSE MaxTotalBg)
        /\ spec = SpecInput(focus, sl, bg)
        /\ impl = ImplInput(focus, il, bg)

InitMalformed ==
    \E focus \in Categories, bg \in Backgrounds :
        LET s == SpecInput(focus, << WithName(SpecRich, NameUpper) >>, bg)
            m == ImplInput(focus, << WithName(ImplOther, NamePadded) >>, bg)
        IN  \/ spec = Absent /\ impl = m
            \/ spec = s /\ impl = Absent
            \/ \E c \in Categories : spec = Without(s, SpecField[c]) /\ impl = m
            \/ \E c \in Categories : spec = s /\ impl = Without(m, ImplField[c])

Init ==
    /\ InitWellFormed \/ InitMalformed
    /\ clock = 0
    /\ results = <<>>
    /\ ScoreIdle
    /\ DebugIdle
    /\ UiIdle

\* the caller invokes compare on the loaded inputs; the call reads the clock,
\* which counts from the first call and has moved on by any amount since
Compare ==
    /\ Len(results) < NumCalls
    /\ \E now \in (IF results = <<>> THEN {clock} ELSE clock..MaxClock) :
           /\ clock' = now
           /\ results' = Append(results, CompareCall(spec, impl, now))
    /\ UNCHANGED <<spec, impl, sreport, ssummary, sprev>>
    /\ UNCHANGED dvars
    /\ UNCHANGED extvars

Next == Compare

Spec == Init /\ [][Next]_vars

---------------------------------------------------------------------------
(* score applied to reports of any make-up *)

MissingPool ==
    {MissingFinding(1, WithName(p, NameUpper)) : p \in {NoAttrs, SpecRich, SpecPlain}}

DeviationPool ==
    {PairDeviations(WithName(SpecRich, NameUpper), WithName(ImplOther, NameUpper))[k] :
        k \in {1, 2}}

LogicalPool ==
    { DataFlowMismatches(<< WithName(SpecRich, NameUpper) >>,
                         << WithName(ImplSame, NameUpper) >>)[1],
      SecurityMismatches(<< WithName(NoAttrs, NameUpper) >>, <<>>)[1] }

ExtraPool == {ExtraFinding(WithName(NoAttrs, NameInner))}

UpTo(S, n) == UNION {[1..k -> S] : k \in 0..n}

\* the four lists of the bundled example report (names by their initials)
GoldenFindings ==
    [ missing_features |->
        << [ type |-> "core_feature", name |-> <<"R", "N">>,
             priority |-> "medium", impact |-> "high" ],
           [ type |-> "ui_component", name |-> <<"P", "I">>,
             priority |-> "medium", impact |-> "medium" ],
           [ type |-> "api_endpoint", name |-> <<"/", "r">>,
             priority |-> "high", impact |-> "high" ] >>,
      deviations |->
        << [ type |-> "configuration_deviation", feature |-> <<"F", "U", "S">>,
             expected |-> "configurable", actual |-> "hardcoded",
             severity |-> "medium" ],
           [ type |-> "implementation_deviation", feature |-> <<"F", "U", "S">>,
             expected |-> "drag_and_drop", actual |-> "basic_form",
             severity |-> "low" ],
           [ type |-> "styling_deviation", feature |-> <<"F", "U", "Z">>,
             expected |-> "tailwind", actual |-> "css_modules",
             severity |-> "low" ] >>,
      logical_mismatches |->
        << [ type |-> "data_flow_mismatch", flow |-> <<"F", "P", "F">>,
             expected_direction |-> "upload -> analyze -> results",
             actual_direction |-> "upload -> process -> analyze",
             severity |-> "high" ],
           [ type |-> "security_requirement_missing",
             requirement |-> <<"U", "A">>,
             severity |-> "critical", impact |-> SecurityImpact ] >>,
      extra_features |->
        << [ type |-> "extra_feature", name |-> <<"E", "L", "F">>,
             impact |-> "low", recommendation |-> ExtraRecommendation ] >> ]

InitScore ==
    /\ spec = Absent /\ impl = Absent /\ clock = 0 /\ results = <<>>
    /\ \/ \E ms \in UpTo(MissingPool, MaxMissing), ds \in UpTo(DeviationPool, MaxDev),
             ls \in UpTo(LogicalPool, MaxLogical), es \in UpTo(ExtraPool, MaxExtra) :
               sreport = [ missing_features |-> ms, deviations |-> ds,
                           logical_mismatches |-> ls, extra_features |-> es ]
       \/ sreport = GoldenFindings
    /\ ssummary = <<>>
    /\ sprev = <<>>
    /\ DebugIdle
    /\ UiIdle

\* score(report)
ScoreCall ==
    /\ ssummary = <<>>
    /\ ssummary' = << Score(sreport) >>
    /\ UNCHANGED <<spec, impl, clock, results, sreport, sprev>>
    /\ UNCHANGED dvars
    /\ UNCHANGED extvars

\* score of the same report with one more finding in one of its lists
ScoreWithOneMore ==
    /\ ssummary # <<>>
    /\ sprev = <<>>
    /\ \/ \E f \in MissingPool :
            sreport' = [sreport EXCEPT !.missing_features = Append(@, f)]
       \/ \E f \in DeviationPool :
            sreport' = [sreport EXCEPT !.deviations = Append(@, f)]
       \/ \E f \in LogicalPool :
            sreport' = [sreport EXCEPT !.logical_mismatches = Append(@, f)]
       \/ \E f \in ExtraPool :
            sreport' = [sreport EXCEPT !.extra_features = Append(@, f)]
    /\ sprev' = << ssummary[1].health_score >>
    /\ ssummary' = << Score(sreport') >>
    /\ UNCHANGED <<spec, impl, clock, results>>
    /\ UNCHANGED dvars
    /\ UNCHANGED extvars

NextScore == ScoreCall \/ ScoreWithOneMore

SpecScore == InitScore /\ [][NextScore]_vars

---------------------------------------------------------------------------
(* BugClassifier: classify(report, runtimeLog?, uiFlowTrace?)              *)
(*                                                                         *)
(* A Bug's id is its prefix and ordinal ("gap_3"); confidence is in        *)
(* hundredths; an optional field is <<>> or a one-element tuple.           *)

BugSeverityLevels == {"critical", "major", "minor", "info"}

BugId(prefix, ordinal) == [prefix |-> prefix, ordinal |-> ordinal]

Suggestion == << "suggested fix" >>

MissingBug(f, n) ==
    [ id |-> BugId("missing", n),
      title |-> [kind |-> "Missing Feature", subject |-> f.name],
      severity |-> "major", file_path |-> <<>>, line_number |-> <<>>,
      category |-> "Missing Implementation", confidence |-> 80,
      proposed_fix |-> Suggestion ]

IsLogical(f) == f.type \in {"data_flow_mismatch", "security_requirement_missing"}

GapSubject(f) ==
    IF f.type = "data_flow_mismatch" THEN f.flow
    ELSE IF f.type = "security_requirement_missing" THEN f.requirement
    ELSE f.feature

\* a Deviation is an Implementation Gap of severity major; a Logical Mismatch
\* carries its own severity unchanged
GapSeverity(f) == IF IsLogical(f) THEN f.severity ELSE "major"

GapBug(f, n) ==
    [ id |-> BugId("gap", n),
      title |-> [kind |-> "Implementation Gap", subject |-> GapSubject(f)],
      severity |-> GapSeverity(f), file_path |-> <<>>, line_number |-> <<>>,
      category |-> "Implementation Gap", confidence |-> 70,
      proposed_fix |-> Suggestion ]

\* severity of a source-scan match by its sub-rule
ScanSeverity(subtype) ==
    IF subtype = "Security" THEN "critical"
    ELSE IF subtype = "Performance" THEN "major"
    ELSE "minor"

ScanBug(m, n) ==
    [ id |-> BugId("quality", n),
      title |-> [kind |-> "Code Quality", subject |-> << m.subtype >>],
      severity |-> ScanSeverity(m.subtype),
      file_path |-> << m.file >>, line_number |-> << m.line >>,
      category |-> "Code Quality", confidence |-> 60,
      proposed_fix |-> Suggestion ]

LogSeverity(level) == IF level = "error" THEN "critical" ELSE "major"

LogBug(e, n) ==
    [ id |-> BugId("log_error", n),
      title |-> [kind |-> "Runtime Error", subject |-> e.message],
      severity |-> LogSeverity(e.level),
      file_path |-> << "runtime" >>, line_number |-> <<>>,
      category |-> "Runtime Error", confidence |-> 90,
      proposed_fix |-> Suggestion ]

PerfBug(q, n) ==
    [ id |-> BugId("perf", n),
      title |-> [kind |-> "Performance Issue", subject |-> q],
      severity |-> "major",
      file_path |-> << "performance" >>, line_number |-> <<>>,
      category |-> "Performance", confidence |-> 70,
      proposed_fix |-> Suggestion ]

UiBug(u, n) ==
    [ id |-> BugId("ui", n),
      title |-> [kind |-> "UI Issue", subject |-> u.issue],
      severity |-> u.severity,
      file_path |-> << "ui_component" >>, line_number |-> <<>>,
      category |-> "User Interface", confidence |-> 80,
      proposed_fix |-> Suggestion ]

\* the entries of each source, in the order classify walks the sources
GapFindings(input) == input.report.deviations \o input.report.logical_mismatches

LogErrors(input) == IF input.log.present THEN input.log.data.errors ELSE <<>>

SlowQueries(input) ==
    IF input.log.present THEN input.log.data.performance.slow_queries ELSE <<>>

UiIssues(input) == IF input.ui.present THEN input.ui.data.ui_issues ELSE <<>>

\* the Bugs with the ordinal restarting at 0 for every source
CreatedPerSource(input) ==
    [k \in 1..Len(input.report.missing_features) |->
        MissingBug(input.report.missing_features[k], k - 1)]
    \o [k \in 1..Len(GapFindings(input)) |-> GapBug(GapFindings(input)[k], k - 1)]
    \o [k \in 1..Len(input.scans) |-> ScanBug(input.scans[k], k - 1)]
    \o [k \in 1..Len(LogErrors(input)) |-> LogBug(LogErrors(input)[k], k - 1)]
    \o [k \in 1..Len(SlowQueries(input)) |-> PerfBug(SlowQueries(input)[k], k - 1)]
    \o [k \in 1..Len(UiIssues(input)) |-> UiBug(UiIssues(input)[k], k - 1)]

\* the Bugs in creation order; the ordinal runs on from source to source
Created(input) ==
    LET ms == input.report.missing_features
        gs == GapFindings(input)
        ss == input.scans
        es == LogErrors(input)
        qs == SlowQueries(input)
        us == UiIssues(input)
        o2 == Len(ms)
        o3 == o2 + Len(gs)
        o4 == o3 + Len(ss)
        o5 == o4 + Len(es)
        o6 == o5 + Len(qs)
    IN  [k \in 1..Len(ms) |-> MissingBug(ms[k], k - 1)]
        \o [k \in 1..Len(gs) |-> GapBug(gs[k], o2 + k - 1)]
        \o [k \in 1..Len(ss) |-> ScanBug(ss[k], o3 + k - 1)]
        \o [k \in 1..Len(es) |-> LogBug(es[k], o4 + k - 1)]
        \o [k \in 1..Len(qs) |-> PerfBug(qs[k], o5 + k - 1)]
        \o [k \in 1..Len(us) |-> UiBug(us[k], o6 + k - 1)]

\* position of a severity in the listing order; a severity that is none of
\* the four levels comes last
SeverityRank(sev) ==
    IF sev = "critical" THEN 0
    ELSE IF sev = "major" THEN 1
    ELSE IF sev = "minor" THEN 2
    ELSE IF sev = "info" THEN 3
    ELSE 4

\* stable sort by severity, most severe first
SortBySeverity(bs) ==
    SelectSeq(bs, LAMBDA b : SeverityRank(b.severity) = 0)
    \o SelectSeq(bs, LAMBDA b : SeverityRank(b.severity) = 1)
    \o SelectSeq(bs, LAMBDA b : SeverityRank(b.severity) = 2)
    \o SelectSeq(bs, LAMBDA b : SeverityRank(b.severity) = 3)
    \o SelectSeq(bs, LAMBDA b : SeverityRank(b.severity) = 4)

\* Bugs at the same file and line folded into the first of them
ClassifyMerged(input) ==
    LET bs == SortBySeverity(Created(input))
        sameSpot(a, b) == /\ a.line_number # <<>>
                          /\ a.file_path = b.file_path
                          /\ a.line_number = b.line_number
        kept == {k \in 1..Len(bs) : \A j \in 1..(k - 1) : ~sameSpot(bs[j], bs[k])}
        pick[k \in 0..Len(bs)] ==
            IF k = 0 THEN <<>>
            ELSE IF k \in kept THEN Append(pick[k - 1], bs[k]) ELSE pick[k - 1]
    IN  pick[Len(bs)]

Classify(input) == SortBySeverity(Created(input))

---------------------------------------------------------------------------
(* FixSynthesizer: synthesize(bug), and the RunSummary                     *)
(*                                                                         *)
(* A snippet is a sequence of lines, a line a sequence of characters; a    *)
(* line of the diff is its prefix character followed by the line.          *)

GeneratorCategories == {"Implementation Gap", "Code Quality"}

LineCall == <<"f", "(", ")">>
LineTry == <<"t", "r", "y">>
LineCatch == <<"c", "a", "t", "c", "h">>
LineSecret == <<"k", "=", "s">>
LineEnv == <<"k", "=", "e">>
LineDecrement == <<"-", "-", "i">>

\* the original snippet and its replacement: a contextual fix wraps the
\* original lines in scaffolding, a template fix swaps fixed snippets
FixSnippets(bug) ==
    IF bug.category = "Implementation Gap"
    THEN [ original |-> << LineCall >>,
           replacement |-> << LineTry, LineCall, LineCatch >> ]
    ELSE IF bug.title.subject = << "Security" >>
    THEN [ original |-> << LineSecret >>, replacement |-> << LineEnv >> ]
    ELSE [ original |-> << LineDecrement, LineCall >>,
           replacement |-> << LineTry, LineDecrement, LineCall, LineCatch >> ]

PathOf(bug) == IF bug.file_path = <<>> THEN "unknown" ELSE bug.file_path[1]

StartOf(bug) == IF bug.line_number = <<>> THEN 1 ELSE bug.line_number[1]

DiffHeader(path) ==
    << <<"-", "-", "-", " ", "a/", path>>,
       <<"+", "+", "+", " ", "b/", path>>,
       <<"@", "@">> >>

Prefixed(c, lines) == [k \in 1..Len(lines) |-> <<c>> \o lines[k]]

\* each replacement line right after the original line at the same position
UnifiedDiffInterleaved(path, original, replacement) ==
    DiffHeader(path)
    \o [k \in 1..(Len(original) + Len(replacement)) |->
          IF k <= 2 * Len(original) /\ k <= 2 * Len(replacement)
          THEN (IF k % 2 = 1 THEN <<"-">> \o original[(k + 1) \div 2]
                ELSE <<"+">> \o replacement[k \div 2])
          ELSE IF Len(original) < Len(replacement)
               THEN <<"+">> \o replacement[k - Len(original)]
               ELSE <<"-">> \o original[k - Len(replacement)]]

UnifiedDiff(path, original, replacement) ==
    DiffHeader(path) \o Prefixed("-", original) \o Prefixed("+", replacement)

\* a Fix for every Bug, whatever its category
SynthesizeAlways(bug) ==
    LET sn == FixSnippets(bug)
    IN  << [ bug_id |-> bug.id, file_path |-> PathOf(bug),
             start_line |-> StartOf(bug),
             end_line |-> StartOf(bug) + Len(sn.original),
             original_code |-> sn.original, fixed_code |-> sn.replacement,
             unified_diff |-> UnifiedDiff(PathOf(bug), sn.original, sn.replacement),
             lines_changed |-> Len(sn.replacement),
             status |-> "pending" ] >>

\* <<>> for no Fix, <<Fix>> otherwise
Synthesize(bug) ==
    IF bug.category \notin GeneratorCategories THEN <<>>
    ELSE LET sn == FixSnippets(bug)
         IN  << [ bug_id |-> bug.id, file_path |-> PathOf(bug),
                  start_line |-> StartOf(bug),
                  end_line |-> StartOf(bug) + Len(sn.original),
                  original_code |-> sn.original, fixed_code |-> sn.replacement,
                  unified_diff |-> UnifiedDiff(PathOf(bug), sn.original, sn.replacement),
                  lines_changed |-> Len(sn.replacement),
                  status |-> "pending" ] >>

\* what the summary lists of a Bug and of a Fix
BugEntry(bug) ==
    [ id |-> bug.id, title |-> bug.title, severity |-> bug.severity,
      file_path |-> bug.file_path, line_number |-> bug.line_number,
      category |-> bug.category, confidence |-> bug.confidence,
      has_fix |-> bug.proposed_fix # <<>> ]

FixEntry(fix) ==
    [ bug_id |-> fix.bug_id, file_path |-> fix.file_path,
      start_line |-> fix.start_line, end_line |-> fix.end_line,
      lines_changed |-> fix.lines_changed ]

CountSeverity(bs, sev) == Cardinality({k \in 1..Len(bs) : bs[k].severity = sev})

\* the summary with the fixes listed latest first
RunSummaryReversed(bs, fs, now) ==
    [ timestamp |-> now,
      total_bugs |-> Len(bs),
      total_fixes |-> Len(fs),
      bugs_by_severity |-> [sev \in BugSeverityLevels |-> CountSeverity(bs, sev)],
      bugs |-> [k \in 1..Len(bs) |-> BugEntry(bs[k])],
      fixes |-> [k \in 1..Len(fs) |-> FixEntry(fs[Len(fs) + 1 - k])] ]

RunSummary(bs, fs, now) ==
    [ timestamp |-> now,
      total_bugs |-> Len(bs),
      total_fixes |-> Len(fs),
      bugs_by_severity |-> [sev \in BugSeverityLevels |-> CountSeverity(bs, sev)],
      bugs |-> [k \in 1..Len(bs) |-> BugEntry(bs[k])],
      fixes |-> [k \in 1..Len(fs) |-> FixEntry(fs[k])] ]

---------------------------------------------------------------------------
(* A debug run: classify, synthesize for each Bug in turn, RunSummary      *)

DbgMissingPool ==
    { MissingFinding(1, WithName(SpecRich, NameUpper)),
      MissingFinding(SecurityCat, WithName(NoAttrs, NameInner)) }

\* two matches of different sub-rules on the same file and line
ScanPool ==
    { [subtype |-> "Security", file |-> "src/api/auth.ts", line |-> 23],
      [subtype |-> "Error Handling", file |-> "src/api/auth.ts", line |-> 23] }

ErrorPool ==
    { [level |-> "error", message |-> <<"A", "P", "I">>],
      [level |-> "warning", message |-> <<"D", "e", "p">>] }

SlowPool == { <<"g", "U", "D">> }

UiPool ==
    { [issue |-> <<"B", "n", "r">>, severity |-> "major"],
      [issue |-> <<"L", "s", "s">>, severity |-> "critical"] }

Least(a, b) == IF a < b THEN a ELSE b

\* lists over S no longer than MaxPerSource nor than what is left of MaxEntries
Few(S, used) == UpTo(S, Least(MaxPerSource, MaxEntries - used))

RuntimeLog(es, qs) ==
    [ present |-> TRUE,
      data |-> [errors |-> es, performance |-> [slow_queries |-> qs]] ]

UIFlowTrace(us) == [ present |-> TRUE, data |-> [ui_issues |-> us] ]

InitDebug ==
    /\ spec = Absent /\ impl = Absent /\ clock = 0 /\ results = <<>>
    /\ ScoreIdle
    /\ \E ms \in Few(DbgMissingPool, 0) :
       \E ds \in Few(DeviationPool, Len(ms)) :
       \E ls \in Few(LogicalPool, Len(ms) + Len(ds)) :
       \E ss \in Few(ScanPool, Len(ms) + Len(ds) + Len(ls)) :
       \E es \in Few(ErrorPool, Len(ms) + Len(ds) + Len(ls) + Len(ss)) :
       \E qs \in Few(SlowPool, Len(ms) + Len(ds) + Len(ls) + Len(ss) + Len(es)) :
       \E us \in Few(UiPool, Len(ms) + Len(ds) + Len(ls) + Len(ss) + Len(es) + Len(qs)) :
       \E lg \in {Absent, RuntimeLog(es, qs)}, ut \in {Absent, UIFlowTrace(us)} :
       \E xs \in UpTo(ExtraPool, MaxExtra) :
           /\ (lg = Absent) => (es = <<>> /\ qs = <<>>)
           /\ (ut = Absent) => (us = <<>>)
           /\ dinput = [ report |-> [ missing_features |-> ms, deviations |-> ds,
                                      logical_mismatches |-> ls,
                                      extra_features |-> xs ],
                         scans |-> ss, log |-> lg, ui |-> ut ]
    /\ bugs = <<>> /\ fixes = <<>> /\ fixpos = 1 /\ rsummary = <<>>
    /\ UiIdle

\* classify(report, runtimeLog, uiFlowTrace)
ClassifyRun ==
    /\ bugs = <<>>
    /\ bugs' = << Classify(dinput) >>
    /\ UNCHANGED <<spec, impl, clock, results, sreport, ssummary, sprev>>
    /\ UNCHANGED <<dinput, fixes, fixpos, rsummary>>
    /\ UNCHANGED extvars

\* synthesize(bug) for the next Bug of the list
SynthesizeNext ==
    /\ bugs # <<>>
    /\ fixpos <= Len(bugs[1])
    /\ fixes' = fixes \o Synthesize(bugs[1][fixpos])
    /\ fixpos' = fixpos + 1
    /\ UNCHANGED <<spec, impl, clock, results, sreport, ssummary, sprev>>
    /\ UNCHANGED <<dinput, bugs, rsummary>>
    /\ UNCHANGED extvars

\* the RunSummary of the run, stamped with the time it is built
Summarise ==
    /\ bugs # <<>>
    /\ fixpos > Len(bugs[1])
    /\ rsummary = <<>>
    /\ \E now \in clock..MaxClock :
           /\ clock' = now
           /\ rsummary' = << RunSummary(bugs[1], fixes, now) >>
    /\ UNCHANGED <<spec, impl, results, sreport, ssummary, sprev>>
    /\ UNCHANGED <<dinput, bugs, fixes, fixpos>>
    /\ UNCHANGED extvars

NextDebug == ClassifyRun \/ SynthesizeNext \/ Summarise

SpecDebug == InitDebug /\ [][NextDebug]_vars

---------------------------------------------------------------------------
(* compare with its six category comparisons run in parallel: each one     *)
(* finishes at some point on its own, and the report is combined once all   *)
(* have finished                                                           *)

\* what one category comparison hands back
CategoryTask(c, s, m) ==
    LET f == CategoryFindings(c, SpecList(s, c), ImplList(m, c))
    IN  [ missing |-> f.missing,
          deviations |-> f.deviations,
          logical |->
            IF c = DataFlowCat
            THEN DataFlowMismatches(SpecList(s, c), ImplList(m, c))
            ELSE IF c = SecurityCat
                 THEN SecurityMismatches(SpecList(s, c), ImplList(m, c))
                 ELSE <<>>,
          extra |-> f.extra ]

CombineInCompletionOrder(found, order, s, m, now) ==
    LET f == [ missing_features |->
                 Flatten([k \in 1..Len(order) |-> found[order[k]][1].missing]),
               deviations |->
                 Flatten([k \in 1..Len(order) |-> found[order[k]][1].deviations]),
               logical_mismatches |->
                 Flatten([k \in 1..Len(order) |-> found[order[k]][1].logical]),
               extra_features |->
                 Flatten([k \in 1..Len(order) |-> found[order[k]][1].extra]) ]
    IN  [ missing_features |-> f.missing_features,
          deviations |-> f.deviations,
          logical_mismatches |-> f.logical_mismatches,
          extra_features |-> f.extra_features,
          summary |-> Score(f),
          metadata |-> Metadata(s, m, now) ]

\* the lists of the six comparisons concatenated in the fixed category order,
\* whatever the order in which they finished
Combine(found, order, s, m, now) ==
    LET f == [ missing_features |-> Flatten([c \in Categories |-> found[c][1].missing]),
               deviations |-> Flatten([c \in Categories |-> found[c][1].deviations]),
               logical_mismatches |->
                 Flatten([c \in Categories |-> found[c][1].logical]),
               extra_features |-> Flatten([c \in Categories |-> found[c][1].extra]) ]
    IN  [ missing_features |-> f.missing_features,
          deviations |-> f.deviations,
          logical_mismatches |-> f.logical_mismatches,
          extra_features |-> f.extra_features,
          summary |-> Score(f),
          metadata |-> Metadata(s, m, now) ]

NotStarted == [c \in Categories |-> <<>>]

ParSpecLists == { <<>>, << WithName(SpecRich, NameUpper) >> }

ParImplLists ==
    { <<>>, << WithName(ImplOther, NamePadded) >>, << WithName(ImplOther, NameInner) >> }

InitParallel ==
    /\ \E focus \in Categories, bg \in Backgrounds,
          sl \in ParSpecLists, il \in ParImplLists :
           /\ spec = SpecInput(focus, sl, bg)
           /\ impl = ImplInput(focus, il, bg)
    /\ clock = 0
    /\ results = <<>>
    /\ pfound = NotStarted
    /\ pdone = <<>>
    /\ preport = <<>>
    /\ ScoreIdle
    /\ DebugIdle
    /\ DashIdle
    /\ RunsIdle
    /\ UploadIdle
    /\ FilesIdle
    /\ NotifyIdle

\* the comparison of one category finishes
FinishCategory ==
    /\ ValidInputs(spec, impl)
    /\ \E c \in Categories :
           /\ pfound[c] = <<>>
           /\ pfound' = [pfound EXCEPT ![c] = << CategoryTask(c, spec, impl) >>]
           /\ pdone' = Append(pdone, c)
    /\ UNCHANGED <<spec, impl, clock, results, preport>>
    /\ UNCHANGED notpar

\* all six have finished: the report is combined and stamped
CombineReport ==
    /\ Len(pdone) = NumCategories
    /\ preport = <<>>
    /\ \E now \in clock..MaxClock :
           /\ clock' = now
           /\ preport' = << Combine(pfound, pdone, spec, impl, now) >>
    /\ UNCHANGED <<spec, impl, results, pfound, pdone>>
    /\ UNCHANGED notpar

NextParallel == FinishCategory \/ CombineReport

SpecParallel == InitParallel /\ [][NextParallel]_vars

---------------------------------------------------------------------------
(* Dashboard, ProjectUpload's analysis result and CodeDiffViewer.  Texts   *)
(* shown to the user (titles, code, explanations) are left out of the fix  *)
(* and bug records; an analysis id stands for `analysis-${Date.now()}` and *)
(* for the timestamp taken at the same instant.                            *)

MaxRuns == 2        \* analyses completed
MaxEmitted == 4     \* notifications handed to addNotification

Note(type, title, duration) ==
    [ type |-> type, title |-> title, duration |-> duration ]

\* an entry of uploadedFiles: the id is `${type}-${Date.now()}-${i}`
NewFile(type, now, i, name) ==
    [ id |-> <<type, now, i>>, name |-> name, type |-> type,
      status |-> "uploading", url |-> <<>> ]

\* the entry once blink.storage.upload has returned its publicUrl
UploadedEntry(f) == [f EXCEPT !.status = "uploaded", !.url = <<f.type, f.name>>]

FailedEntry(f) == [f EXCEPT !.status = "error"]

Placeholder == "Spec enhancement in progress..."

ResultBugs ==
    << [ id |-> "bug-1", severity |-> "high", file |-> "src/components/Login.tsx" ],
       [ id |-> "bug-2", severity |-> "medium", file |-> "src/pages/Dashboard.tsx" ],
       [ id |-> "bug-3", severity |-> "low", file |-> "src/components/Navigation.tsx" ] >>

FixRecord(id, bugId, file, confidence, impact, status) ==
    [ id |-> id, bugId |-> bugId, file |-> file, confidence |-> confidence,
      impact |-> impact, status |-> status ]

ResultFixes ==
    << FixRecord("fix-1", "bug-1", "src/components/Login.tsx", "95", "high", "pending"),
       FixRecord("fix-2", "bug-2", "src/pages/Dashboard.tsx", "88", "medium", "pending") >>

\* the analysisResult startAnalysis builds from the values it holds
AnalysisResult(id, original, enhanced, files) ==
    [ id |-> id,
      originalSpec |-> original,
      enhancedSpec |-> IF enhanced = "" THEN Placeholder ELSE enhanced,
      files |-> files,
      bugs |-> ResultBugs,
      fixes |-> ResultFixes ]

AnalysisCompleteNote == Note("success", "Analysis Complete!", "5000")

\* CodeDiffViewer
DummyFixes ==
    << FixRecord("fix-1", "bug-1", "src/api/users.js", "98", "critical", "pending"),
       FixRecord("fix-2", "bug-2", "src/middleware/auth.js", "95", "high", "pending"),
       FixRecord("fix-3", "bug-3", "src/components/Dashboard.jsx", "92", "medium", "applied") >>

\* fixes={analysisData?.fixes || []}
FixesProp == IF analysisData = <<>> THEN <<>> ELSE analysisData[1].fixes

DisplayFixes == IF Len(FixesProp) > 0 THEN FixesProp ELSE DummyFixes

\* displayFixes.find(fix => fix.id === selectedFix): <<>> for undefined
Find(fs, id) ==
    LET hits == {i \in DOMAIN fs : fs[i].id = id}
    IN  IF hits = {} THEN <<>>
        ELSE << fs[CHOOSE i \in hits : \A j \in hits : i <= j] >>

SelectedFixData == Find(DisplayFixes, selectedFix)

ActionsShownAlways == SelectedFixData # <<>>

\* the Apply Fix and Reject buttons are rendered for a selected pending fix
ActionsShown == SelectedFixData # <<>> /\ SelectedFixData[1].status = "pending"

\* Dashboard handlers
SetStatusAll(fs, fixId, status) ==
    [ i \in DOMAIN fs |-> [fs[i] EXCEPT !.status = status] ]

SetStatus(fs, fixId, status) ==
    [ i \in DOMAIN fs |->
        IF fs[i].id = fixId THEN [fs[i] EXCEPT !.status = status] ELSE fs[i] ]

FixAppliedNote == Note("success", "Fix Applied Successfully", "4000")

FixRejectedNote == Note("info", "Fix Rejected", "3000")

WelcomeNote == Note("success", "Welcome to BugOff AI!", "4000")

\* the body shared by handleApplyFix and handleRejectFix
HandleFix(fixId, status, note) ==
    IF analysisData # <<>>
    THEN /\ analysisData' =
              << [analysisData[1] EXCEPT
                     !.fixes = SetStatus(analysisData[1].fixes, fixId, status)] >>
         /\ emitted' = Append(emitted, note)
    ELSE UNCHANGED <<analysisData, emitted>>

HandleApplyFix(fixId) == HandleFix(fixId, "applied", FixAppliedNote)

HandleRejectFix(fixId) == HandleFix(fixId, "rejected", FixRejectedNote)

CoreIdle ==
    /\ spec = Absent /\ impl = Absent /\ clock = 0 /\ results = <<>>
    /\ ScoreIdle
    /\ DebugIdle

NoCall == <<"none", "">>

\* a new user sees the welcome screen first
InitDash ==
    /\ CoreIdle
    /\ ParIdle
    /\ RunsIdle
    /\ UploadIdle
    /\ FilesIdle
    /\ NotifyIdle
    /\ showWelcome \in {"true", "false"}
    /\ analysisData = <<>>
    /\ selectedFix = ""
    /\ emitted = <<>>
    /\ lastCall = NoCall

HandleWelcomeComplete ==
    /\ showWelcome = "true"
    /\ showWelcome' = "false"
    /\ emitted' = Append(emitted, WelcomeNote)
    /\ UNCHANGED <<analysisData, selectedFix, lastCall>>
    /\ UNCHANGED notdash

HandleSkipWelcome ==
    /\ showWelcome = "true"
    /\ showWelcome' = "false"
    /\ UNCHANGED <<analysisData, selectedFix, emitted, lastCall>>
    /\ UNCHANGED notdash

DashFiles ==
    { [ code |-> c, video |-> v, logs |-> <<>> ] :
        c \in { <<>>, << UploadedEntry(NewFile("code", 0, 0, "a")) >> },
        v \in { <<>>, << UploadedEntry(NewFile("video", 0, 0, "b")) >> } }

\* ProjectUpload hands a finished analysis to setAnalysisData and announces it
AnalysisComplete ==
    /\ showWelcome = "false"
    /\ Len(emitted) < MaxEmitted
    /\ \E id \in 1..MaxRuns, enhanced \in {"", "enhanced"}, files \in DashFiles :
           /\ analysisData # <<>> => id > analysisData[1].id
           /\ analysisData' = << AnalysisResult(id, <<"s">>, enhanced, files) >>
    /\ emitted' = Append(emitted, AnalysisCompleteNote)
    /\ UNCHANGED <<showWelcome, selectedFix, lastCall>>
    /\ UNCHANGED notdash

\* a click on an entry of the Available Fixes list
SelectFix ==
    /\ showWelcome = "false"
    /\ \E i \in DOMAIN DisplayFixes : selectedFix' = DisplayFixes[i].id
    /\ UNCHANGED <<showWelcome, analysisData, emitted, lastCall>>
    /\ UNCHANGED notdash

ClickApply ==
    /\ showWelcome = "false"
    /\ ActionsShown
    /\ Len(emitted) < MaxEmitted
    /\ HandleApplyFix(SelectedFixData[1].id)
    /\ lastCall' = <<"apply", SelectedFixData[1].id>>
    /\ UNCHANGED <<showWelcome, selectedFix>>
    /\ UNCHANGED notdash

ClickReject ==
    /\ showWelcome = "false"
    /\ ActionsShown
    /\ Len(emitted) < MaxEmitted
    /\ HandleRejectFix(SelectedFixData[1].id)
    /\ lastCall' = <<"reject", SelectedFixData[1].id>>
    /\ UNCHANGED <<showWelcome, selectedFix>>
    /\ UNCHANGED notdash

NextDash ==
    \/ HandleWelcomeComplete
    \/ HandleSkipWelcome
    \/ AnalysisComplete
    \/ SelectFix
    \/ ClickApply
    \/ ClickReject

SpecDash == InitDash /\ [][NextDash]_vars

---------------------------------------------------------------------------
(* Two pipeline runs side by side: each has its own inputs and goes through *)
(* compare, classify, synthesize for each Bug and RunSummary; the table of  *)
(* fix generators is built once and handed to both                          *)

Runners == {"a", "b"}

\* the table after a generator that is dropped once it has produced a Fix
TableConsumed(table, bug) == table \ {bug.category}

\* the table after synthesize has read it
TableAfter(table, bug) == table

\* synthesize with the generators looked up in the table it was handed
SynthesizeFrom(table, bug) ==
    IF bug.category \in table THEN Synthesize(bug) ELSE <<>>

RunInput(sl, il, ss, lg, ut) ==
    [ spec |-> SpecInput(1, sl, "empty"), impl |-> ImplInput(1, il, "empty"),
      scans |-> ss, log |-> lg, ui |-> ut ]

SecretScan == [subtype |-> "Security", file |-> "src/api/auth.ts", line |-> 23]

RunInputs ==
    { RunInput(<< WithName(SpecRich, NameInner) >>, <<>>, << SecretScan >>,
               Absent, Absent),
      RunInput(<< WithName(SpecRich, NameUpper) >>, << WithName(ImplOther, NamePadded) >>,
               <<>>, RuntimeLog(<< [level |-> "error", message |-> <<"A", "P", "I">>] >>,
                                <<>>), Absent),
      RunInput(<<>>, <<>>, << SecretScan >>, Absent,
               UIFlowTrace(<< [issue |-> <<"B", "n", "r">>, severity |-> "major"] >>)) }

NewRun(input) ==
    [ input |-> input, stage |-> "compare", report |-> <<>>, bugs |-> <<>>,
      fixes |-> <<>>, pos |-> 1, summary |-> <<>> ]

\* what classify is handed by a run
ClassifyInput(run) ==
    [ report |-> run.report[1], scans |-> run.input.scans,
      log |-> run.input.log, ui |-> run.input.ui ]

InitRuns ==
    /\ CoreIdle
    /\ DashIdle
    /\ ParIdle
    /\ UploadIdle
    /\ FilesIdle
    /\ NotifyIdle
    /\ ptable = GeneratorCategories
    /\ \E ia \in RunInputs, ib \in RunInputs :
           runs = [r \in Runners |-> NewRun(IF r = "a" THEN ia ELSE ib)]

RunCompare(r) ==
    /\ runs[r].stage = "compare"
    /\ \E now \in clock..MaxClock :
           /\ clock' = now
           /\ runs' = [runs EXCEPT
                  ![r].report = CompareCall(runs[r].input.spec, runs[r].input.impl,
                                            now).output,
                  ![r].stage = "classify"]
    /\ UNCHANGED ptable

RunClassify(r) ==
    /\ runs[r].stage = "classify"
    /\ runs' = [runs EXCEPT ![r].bugs = Classify(ClassifyInput(runs[r])),
                            ![r].stage = "synthesize"]
    /\ UNCHANGED <<clock, ptable>>

RunSynthesize(r) ==
    /\ runs[r].stage = "synthesize"
    /\ runs[r].pos <= Len(runs[r].bugs)
    /\ LET bug == runs[r].bugs[runs[r].pos]
       IN  /\ runs' = [runs EXCEPT
                  ![r].fixes = runs[r].fixes \o SynthesizeFrom(ptable, bug),
                  ![r].pos = runs[r].pos + 1]
           /\ ptable' = TableAfter(ptable, bug)
    /\ UNCHANGED clock

RunSummarise(r) ==
    /\ runs[r].stage = "synthesize"
    /\ runs[r].pos > Len(runs[r].bugs)
    /\ \E now \in clock..MaxClock :
           /\ clock' = now
           /\ runs' = [runs EXCEPT
                  ![r].summary = << RunSummary(runs[r].bugs, runs[r].fixes, now) >>,
                  ![r].stage = "done"]
    /\ UNCHANGED ptable

RunStep ==
    /\ \E r \in Runners :
           RunCompare(r) \/ RunClassify(r) \/ RunSynthesize(r) \/ RunSummarise(r)
    /\ UNCHANGED <<spec, impl, results, sreport, ssummary, sprev>>
    /\ UNCHANGED <<dvars, dashvars, parvars, upvars, filevars, notevars>>

NextRuns == RunStep

SpecRuns == InitRuns /\ [][NextRuns]_vars

---------------------------------------------------------------------------
(* ProjectUpload: enhanceSpec and startAnalysis.  Each action is one run of *)
(* a handler or of the continuation of an await up to the next await; the   *)
(* state it leaves is the last value set for each piece of component state. *)
(* A specification text is a sequence of characters; the generated text is  *)
(* the string "enhanced".                                                   *)

MaxAnalyses == 2    \* analyses started
MaxManual == 1      \* enhanceSpec calls started by the button and not settled

SpecTexts == { <<>>, <<" ">>, <<"s">> }

Blank(text) == Trim(text) = <<>>

StepEnhancing == "Enhancing specification..."
StepReport == "Generating bug report..."
StepPatterns == "Identifying patterns..."
StepFixes == "Generating fixes..."
StepComplete == "Analysis complete!"

ProgressEnhancing == 20
ProgressEnhanced == 40
ProgressReport == 80
ProgressPatterns == 85
ProgressFixes == 90
ProgressComplete == 100

\* uploadedFiles.filter(f => f.type === type && f.status === 'uploaded')
FilesOfType(files, type) ==
    SelectSeq(files, LAMBDA f : f.type = type /\ f.status = "uploaded")

ResultFiles(files) ==
    [ code |-> FilesOfType(files, "code"), video |-> FilesOfType(files, "video"),
      logs |-> FilesOfType(files, "logs") ]

IsAnalyzingStuck == TRUE

\* finally: setIsAnalyzing(false)
IsAnalyzingAfter == FALSE

AnalysisFileLists ==
    { <<>>,
      << UploadedEntry(NewFile("code", 1, 0, "a")) >>,
      << NewFile("video", 1, 0, "b"), FailedEntry(NewFile("code", 2, 0, "a")) >> }

InitAnalysis ==
    /\ CoreIdle /\ DashIdle /\ ParIdle /\ RunsIdle
    /\ originalSpec = <<>> /\ enhancedSpec = ""
    /\ uploadedFiles \in AnalysisFileLists
    /\ isAnalyzing = FALSE /\ analysisProgress = 0 /\ currentStep = ""
    /\ task = IdleTask /\ manual = 0 /\ timers = 0
    /\ calls = NoCalls /\ lastResult = <<>>
    /\ FilesIdle
    /\ NotifyIdle

\* the textarea's onChange
TypeSpec ==
    /\ \E text \in SpecTexts : originalSpec' = text
    /\ UNCHANGED <<enhancedSpec, uploadedFiles, isAnalyzing, analysisProgress,
                   currentStep, task, manual, timers, calls, lastResult>>
    /\ UNCHANGED notup

\* the Enhance button, shown for a non-empty text and disabled while
\* analyzing: enhanceSpec up to its await
ClickEnhance ==
    /\ originalSpec # <<>>
    /\ ~isAnalyzing
    /\ manual < MaxManual
    /\ IF Blank(originalSpec)
       THEN UNCHANGED <<currentStep, analysisProgress, manual>>
       ELSE /\ currentStep' = StepEnhancing
            /\ analysisProgress' = ProgressEnhancing
            /\ manual' = manual + 1
    /\ UNCHANGED <<originalSpec, enhancedSpec, uploadedFiles, isAnalyzing, task,
                   timers, calls, lastResult>>
    /\ UNCHANGED notup

\* generateText settles for an enhanceSpec started by the button
ManualEnhanceSettles ==
    /\ manual > 0
    /\ manual' = manual - 1
    /\ \/ /\ enhancedSpec' = "enhanced"
          /\ analysisProgress' = ProgressEnhanced
       \/ UNCHANGED <<enhancedSpec, analysisProgress>>
    /\ UNCHANGED <<originalSpec, uploadedFiles, isAnalyzing, currentStep, task,
                   timers, calls, lastResult>>
    /\ UNCHANGED notup

\* startAnalysis up to its first await: it returns at once on a blank text or
\* an empty file list; otherwise it awaits its own enhanceSpec when the
\* enhancedSpec it sees is empty, or else the first pause
StartAnalysis ==
    /\ ~isAnalyzing
    /\ IF Blank(originalSpec) \/ Len(uploadedFiles) = 0
       THEN /\ calls' = [calls EXCEPT !.verdict = "rejected"]
            /\ UNCHANGED <<isAnalyzing, analysisProgress, currentStep, task>>
       ELSE /\ calls.accepted < MaxAnalyses
            /\ calls' = [ verdict |-> "accepted", accepted |-> calls.accepted + 1,
                          completes |-> 0, successes |-> 0, errors |-> 0 ]
            /\ isAnalyzing' = TRUE
            /\ IF enhancedSpec = ""
               THEN /\ currentStep' = StepEnhancing
                    /\ analysisProgress' = ProgressEnhancing
                    /\ task' = [ pc |-> "enhancing", originalSpec |-> originalSpec,
                                 enhancedSpec |-> enhancedSpec,
                                 uploadedFiles |-> uploadedFiles, enhance |-> "none" ]
               ELSE /\ currentStep' = StepReport
                    /\ analysisProgress' = ProgressReport
                    /\ task' = [ pc |-> "pause1000", originalSpec |-> originalSpec,
                                 enhancedSpec |-> enhancedSpec,
                                 uploadedFiles |-> uploadedFiles, enhance |-> "none" ]
    /\ UNCHANGED <<originalSpec, enhancedSpec, uploadedFiles, manual, timers,
                   lastResult>>
    /\ UNCHANGED notup

\* generateText settles for the enhanceSpec awaited by startAnalysis, which
\* goes on to its first pause
AnalysisEnhanceSettles ==
    /\ task.pc = "enhancing"
    /\ \/ /\ enhancedSpec' = "enhanced"
          /\ task' = [task EXCEPT !.pc = "pause1000", !.enhance = "ok"]
       \/ /\ UNCHANGED enhancedSpec
          /\ task' = [task EXCEPT !.pc = "pause1000", !.enhance = "failed"]
    /\ currentStep' = StepReport
    /\ analysisProgress' = ProgressReport
    /\ UNCHANGED <<originalSpec, uploadedFiles, isAnalyzing, manual, timers, calls,
                   lastResult>>
    /\ UNCHANGED notup

Pause1000Ends ==
    /\ task.pc = "pause1000"
    /\ task' = [task EXCEPT !.pc = "pause800"]
    /\ currentStep' = StepPatterns
    /\ analysisProgress' = ProgressPatterns
    /\ UNCHANGED <<originalSpec, enhancedSpec, uploadedFiles, isAnalyzing, manual,
                   timers, calls, lastResult>>
    /\ UNCHANGED notup

Pause800Ends ==
    /\ task.pc = "pause800"
    /\ task' = [task EXCEPT !.pc = "pause600"]
    /\ currentStep' = StepFixes
    /\ analysisProgress' = ProgressFixes
    /\ UNCHANGED <<originalSpec, enhancedSpec, uploadedFiles, isAnalyzing, manual,
                   timers, calls, lastResult>>
    /\ UNCHANGED notup

\* the last pause ends: the result is built from the values startAnalysis
\* holds, handed over and announced; finally isAnalyzing is reset and the
\* 2-second timer is set
Pause600Ends ==
    /\ task.pc = "pause600"
    /\ task' = IdleTask
    /\ currentStep' = StepComplete
    /\ analysisProgress' = ProgressComplete
    /\ lastResult' =
         << [ result |-> AnalysisResult(calls.accepted, task.originalSpec,
                                        task.enhancedSpec,
                                        ResultFiles(task.uploadedFiles)),
              enhance |-> task.enhance ] >>
    /\ calls' = [calls EXCEPT !.completes = calls.completes + 1,
                              !.successes = calls.successes + 1]
    /\ isAnalyzing' = IsAnalyzingAfter
    /\ timers' = timers + 1
    /\ UNCHANGED <<originalSpec, enhancedSpec, uploadedFiles, manual>>
    /\ UNCHANGED notup

\* a 2-second timer set at the end of an analysis fires
ResetTimerFires ==
    /\ timers > 0
    /\ timers' = timers - 1
    /\ analysisProgress' = 0
    /\ currentStep' = ""
    /\ UNCHANGED <<originalSpec, enhancedSpec, uploadedFiles, isAnalyzing, task,
                   manual, calls, lastResult>>
    /\ UNCHANGED notup

AnalysisStep ==
    AnalysisEnhanceSettles \/ Pause1000Ends \/ Pause800Ends \/ Pause600Ends

NextAnalysis ==
    \/ TypeSpec
    \/ ClickEnhance
    \/ ManualEnhanceSettles
    \/ StartAnalysis
    \/ AnalysisEnhanceSettles
    \/ Pause1000Ends
    \/ Pause800Ends
    \/ Pause600Ends
    \/ ResetTimerFires

SpecAnalysis == InitAnalysis /\ [][NextAnalysis]_vars

\* timers fire and the text generation request ends, one way or the other
FairSpecAnalysis == SpecAnalysis /\ WF_vars(AnalysisStep)

---------------------------------------------------------------------------
(* ProjectUpload: handleFileUpload and removeFile.  A handleFileUpload call *)
(* uploads its files one after the other; the clock is what Date.now()      *)
(* returns, in milliseconds: a choice of files by the user comes at least   *)
(* one millisecond after anything before it, the end of an upload may fall  *)
(* into the millisecond of the step before it.                              *)

MaxNow == 3         \* last millisecond observed
MaxUploads == 2     \* handleFileUpload calls under way
MaxFiles == 4       \* entries of uploadedFiles

FileTypes == {"code", "video"}

FileLists == { <<"a">>, <<"a", "b">> }

FileUploadedNote == Note("success", "File Uploaded", "3000")

UploadFailedNote == Note("error", "Upload Failed", "5000")

\* prev.map(f => f.id === fileId ? {...f, status, url} : f)
MarkUploaded(files, fileId, url) ==
    [ k \in DOMAIN files |->
        IF files[k].id = fileId
        THEN [files[k] EXCEPT !.status = "uploaded", !.url = << url >>]
        ELSE files[k] ]

MarkFailed(files, fileId) ==
    [ k \in DOMAIN files |->
        IF files[k].id = fileId THEN FailedEntry(files[k]) ELSE files[k] ]

\* prev.filter(f => f.id !== fileId)
WithoutFile(files, fileId) == SelectSeq(files, LAMBDA f : f.id # fileId)

WithoutCall(calls_, k) ==
    [ j \in 1..(Len(calls_) - 1) |-> IF j < k THEN calls_[j] ELSE calls_[j + 1] ]

InitFiles ==
    /\ CoreIdle /\ DashIdle /\ ParIdle /\ RunsIdle
    /\ UploadIdle
    /\ FilesIdle
    /\ NotifyIdle

\* the user picks files in one of the two inputs: handleFileUpload up to the
\* await of its first upload
SelectFiles ==
    /\ Len(uploads) < MaxUploads
    /\ \E type \in FileTypes, names \in FileLists, now \in (clock + 1)..MaxNow :
           /\ Len(uploadedFiles) + Len(names) <= MaxFiles
           /\ clock' = now
           /\ uploadedFiles' = Append(uploadedFiles, NewFile(type, now, 0, names[1]))
           /\ uploads' = Append(uploads, [ type |-> type, names |-> names, i |-> 0,
                                            id |-> <<type, now, 0>> ])
    /\ UNCHANGED <<removed, fileNote>>
    /\ UNCHANGED <<originalSpec, enhancedSpec, isAnalyzing, analysisProgress,
                   currentStep, task, manual, timers, calls, lastResult>>
    /\ UNCHANGED notfiles

\* an upload ends, well or not: the entry is marked, the user is told, and the
\* call goes on to its next file, if any, up to the await of that upload
UploadSettles ==
    /\ \E k \in DOMAIN uploads, ok \in BOOLEAN, now \in clock..MaxNow :
           LET call == uploads[k]
               marked == IF ok
                         THEN MarkUploaded(uploadedFiles, call.id,
                                           <<call.type, call.names[call.i + 1]>>)
                         ELSE MarkFailed(uploadedFiles, call.id)
               next == call.i + 1
           IN  /\ clock' = now
               /\ fileNote' = << IF ok THEN FileUploadedNote ELSE UploadFailedNote >>
               /\ IF next < Len(call.names)
                  THEN /\ uploadedFiles' =
                            Append(marked, NewFile(call.type, now, next,
                                                   call.names[next + 1]))
                       /\ uploads' = [uploads EXCEPT
                                         ![k] = [call EXCEPT !.i = next,
                                                   !.id = <<call.type, now, next>>]]
                  ELSE /\ uploadedFiles' = marked
                       /\ uploads' = WithoutCall(uploads, k)
    /\ UNCHANGED removed
    /\ UNCHANGED <<originalSpec, enhancedSpec, isAnalyzing, analysisProgress,
                   currentStep, task, manual, timers, calls, lastResult>>
    /\ UNCHANGED notfiles

\* the X button of an entry, disabled while the entry is 'uploading'
RemoveFile ==
    /\ \E k \in DOMAIN uploadedFiles :
           /\ uploadedFiles[k].status # "uploading"
           /\ uploadedFiles' = WithoutFile(uploadedFiles, uploadedFiles[k].id)
           /\ removed' = removed \cup {uploadedFiles[k].id}
    /\ UNCHANGED <<clock, uploads, fileNote>>
    /\ UNCHANGED <<originalSpec, enhancedSpec, isAnalyzing, analysisProgress,
                   currentStep, task, manual, timers, calls, lastResult>>
    /\ UNCHANGED notfiles

NextFiles == SelectFiles \/ UploadSettles \/ RemoveFile

SpecFiles == InitFiles /\ [][NextFiles]_vars

---------------------------------------------------------------------------
(* NotificationSystem.  Time is in milliseconds and moves on in ticks, never *)
(* past a timer that is due: a timer fires at the time it was set for.  The  *)
(* owner of the list adds notifications and, when onRemove is called, takes  *)
(* the notification with that id off the list.                               *)

MaxNotes == 2       \* notifications added
MaxTime == 6000     \* last time observed
Tick == 1000        \* longest time step

DefaultDuration == 5000

\* duration: <<>> when unset
NoteDurations == { <<>>, <<0>>, <<3000>> }

HasTimer(n) == n.duration # <<0>>

\* notification.duration || 5000
TimerDelay(n) ==
    IF n.duration = <<>> \/ n.duration = <<0>> THEN DefaultDuration ELSE n.duration[1]

NewTimers(list, now) ==
    { [id |-> list[k].id, due |-> now + TimerDelay(list[k])] :
        k \in {j \in DOMAIN list : HasTimer(list[j])} }

TimersRestarted(pending, list, now) == NewTimers(list, now)

\* the effect sets a timer for every notification of the list that has one;
\* it returns no cleanup, so the timers set before stay
TimersAfterEffect(pending, list, now) == pending \cup NewTimers(list, now)

WithoutNote(list, id) == SelectSeq(list, LAMBDA n : n.id # id)

InitNotify ==
    /\ CoreIdle /\ DashIdle /\ ParIdle /\ RunsIdle /\ UploadIdle /\ FilesIdle
    /\ NotifyIdle

\* a notification is added to the list; the effect runs on the new list
AddNotification ==
    /\ Len(seen) < MaxNotes
    /\ \E d \in NoteDurations :
           LET n == [id |-> Len(seen) + 1, duration |-> d]
           IN  /\ notifications' = Append(notifications, n)
               /\ seen' = Append(seen, [duration |-> d, at |-> ntime])
    /\ ntimers' = TimersAfterEffect(ntimers, notifications', ntime)
    /\ UNCHANGED <<ntime, timedOut>>
    /\ UNCHANGED notnotify

\* the X button of a notification: onRemove, then the effect on the new list
Dismiss ==
    /\ \E k \in DOMAIN notifications :
           notifications' = WithoutNote(notifications, notifications[k].id)
    /\ ntimers' = TimersAfterEffect(ntimers, notifications', ntime)
    /\ UNCHANGED <<ntime, seen, timedOut>>
    /\ UNCHANGED notnotify

\* a timer that is due fires: onRemove, then the effect on the new list
TimerFires ==
    /\ \E t \in ntimers :
           /\ t.due = ntime
           /\ notifications' = WithoutNote(notifications, t.id)
           /\ timedOut' = timedOut \cup {t.id}
           /\ ntimers' = TimersAfterEffect(ntimers \ {t}, notifications', ntime)
    /\ UNCHANGED <<ntime, seen>>
    /\ UNCHANGED notnotify

\* time passes, up to the next timer
TimePasses ==
    /\ \A t \in ntimers : t.due > ntime
    /\ \E later \in (ntime + 1)..(ntime + Tick) :
           /\ later <= MaxTime
           /\ \A t \in ntimers : t.due >= later
           /\ \/ later = ntime + Tick
              \/ \E t \in ntimers : t.due = later
           /\ ntime' = later
    /\ UNCHANGED <<notifications, ntimers, seen, timedOut>>
    /\ UNCHANGED notnotify

NextNotify == AddNotification \/ Dismiss \/ TimerFires \/ TimePasses

SpecNotify == InitNotify /\ [][NextNotify]_vars

---------------------------------------------------------------------------
(* Properties of compare and MatchIndex, stated on the loaded inputs and   *)
(* on the reports the calls returned                                       *)

Called == Len(results) > 0

Succeeded == Called /\ results[1].error = "none"

FirstReport == results[1].output[1]

MatchOf(c) == Match(SpecList(spec, c), ImplList(impl, c))

SpecPos(c) == 1..Len(SpecList(spec, c))
ImplPos(c) == 1..Len(ImplList(impl, c))

PairsIn(m) == {<<m.matchedPairs[t].s, m.matchedPairs[t].i>> : t \in 1..Len(m.matchedPairs)}

PairsOf(c) == PairsIn(MatchOf(c))

Range(seq) == {seq[t] : t \in 1..Len(seq)}

\* the names of the inputs, grouped by what they are once case and
\* surrounding whitespace are disregarded
NameClasses == { {NameUpper, NamePadded}, {NameInner},
                 {BgSpecName, BgImplSameName}, {BgImplOtherName} }

SameName(a, b) == \E cls \in NameClasses : a \in cls /\ b \in cls

OfType(findings, tag) == SelectSeq(findings, LAMBDA f : f.type = tag)

\* C1: in every category, |unmatchedSpec| + |matchedPairs| = |specEntities| and
\* |unmatchedImpl| + |matchedPairs| = |implEntities|, and no entity is in more
\* than one of the three results (duplicate names on either side included).
C1_PartitionInvariant ==
    Succeeded =>
        \A c \in Categories :
            LET m == MatchOf(c)
            IN  /\ Len(m.unmatchedSpec) + Len(m.matchedPairs) = Len(SpecList(spec, c))
                /\ Len(m.unmatchedImpl) + Len(m.matchedPairs) = Len(ImplList(impl, c))
                /\ \A p \in PairsIn(m) :
                       p[1] \notin Range(m.unmatchedSpec) /\ p[2] \notin Range(m.unmatchedImpl)

\* C2: a spec entity and an impl entity of a category are paired only when their
\* names are the same up to letter case and surrounding whitespace; a spec entity
\* is paired exactly when the impl list has such a name; names that agree this way
\* cause no Missing finding and no Extra finding for a first occurrence.
C2_CaseInsensitiveExactMatch ==
    Succeeded =>
        \A c \in Categories :
            LET sl == SpecList(spec, c)
                il == ImplList(impl, c)
                met(k) == \E j \in ImplPos(c) : SameName(sl[k].name, il[j].name)
                wanted(j) == \E k \in SpecPos(c) : SameName(sl[k].name, il[j].name)
                first(j) == \A h \in 1..(j - 1) : ~SameName(il[h].name, il[j].name)
                m == MatchOf(c)
                pairs == PairsIn(m)
                extras == Range(m.unmatchedImpl)
            IN  /\ \A p \in pairs : SameName(sl[p[1]].name, il[p[2]].name)
                /\ \A k \in SpecPos(c) : met(k) <=> (\E p \in pairs : p[1] = k)
                /\ Len(OfType(FirstReport.missing_features, CategoryTag[c]))
                     = Cardinality({k \in SpecPos(c) : ~met(k)})
                /\ \A j \in ImplPos(c) : (wanted(j) /\ first(j)) => j \notin extras
                /\ \A j \in ImplPos(c) : ~wanted(j) => j \in extras

\* a call has paired two names that differ as written, and reported nothing
C2_Witness ==
    /\ Succeeded
    /\ \E c \in Categories : \E p \in PairsOf(c) :
           SpecList(spec, c)[p[1]].name # ImplList(impl, c)[p[2]].name
    /\ FirstReport.missing_features = <<>>
    /\ FirstReport.extra_features = <<>>
    /\ FirstReport.deviations = <<>>

C4_SecurityRequirementMissing ==
    Succeeded =>
        LET sl == SpecList(spec, SecurityCat)
            il == ImplList(impl, SecurityCat)
            unmet == SelectSeq(Idx(Len(sl)),
                               LAMBDA k : \A j \in 1..Len(il) : ~SameName(sl[k].name, il[j].name))
            got == OfType(FirstReport.logical_mismatches, "security_requirement_missing")
        IN  /\ Len(got) = Len(unmet)
            /\ \A t \in 1..Len(unmet) :
                   got[t].requirement = sl[unmet[t]].name /\ got[t].severity = "critical"

\* a report with one security mismatch while another requirement is met
C4_Witness ==
    /\ Succeeded
    /\ Len(OfType(FirstReport.logical_mismatches, "security_requirement_missing")) = 1
    /\ Len(SpecList(spec, SecurityCat)) = 2
    /\ MatchOf(SecurityCat).matchedPairs # <<>>

\* the (pair, field) combinations of a category whose field is on both entities
\* with different values
FieldPairs == { <<"configurable", "configurable", "configuration_deviation">>,
                <<"implementation_approach", "implementation_type", "implementation_deviation">>,
                <<"styling", "styling", "styling_deviation">> }

\* <<spec entity, impl entity, field pair, position of the pair>>
Differing(c) ==
    LET m == MatchOf(c)
        sl == SpecList(spec, c)
        il == ImplList(impl, c)
    IN  { <<sl[m.matchedPairs[x[1]].s], il[m.matchedPairs[x[1]].i], x[2], x[1]>> :
            x \in { y \in (1..Len(m.matchedPairs)) \X FieldPairs :
                      LET s == sl[m.matchedPairs[y[1]].s]
                          i == il[m.matchedPairs[y[1]].i]
                      IN  /\ y[2][1] \in DOMAIN s /\ y[2][2] \in DOMAIN i
                          /\ s[y[2][1]] # i[y[2][2]] } }

RECURSIVE SumOver(_, _)
SumOver(f, S) == IF S = {} THEN 0
                 ELSE LET x == CHOOSE y \in S : TRUE IN f[x] + SumOver(f, S \ {x})

DeviationSeverityOf(type) == IF type = "configuration_deviation" THEN "medium" ELSE "low"

\* C5 as stated: one Deviation per matched pair and field present on both with
\* different values, none otherwise, expected = the spec value, actual = the impl
\* value, severity medium for the configurable flag and low for the other two.
C5_DeviationCarriesRawValues ==
    Succeeded =>
        /\ Len(FirstReport.deviations)
             = SumOver([c \in Categories |-> Cardinality(Differing(c))], Categories)
        /\ \A c \in Categories : \A d \in Differing(c) :
               \E f \in Range(FirstReport.deviations) :
                   /\ f.type = d[3][3] /\ f.feature = d[1].name
                   /\ f.expected = d[1][d[3][1]] /\ f.actual = d[2][d[3][2]]
                   /\ f.severity = DeviationSeverityOf(f.type)

\* how a field's value is worded in a Deviation
Worded(field, value) ==
    IF field = "configurable"
    THEN (IF value = "true" THEN "configurable" ELSE "hardcoded")
    ELSE value

\* C5 (amended): as C5, with expected and actual being the spec and impl values
\* as the report words them: the configurable flag reads "configurable" for true
\* and "hardcoded" for false, the other fields read as they are.
C5_DeviationPerDifferingField ==
    Succeeded =>
        /\ Len(FirstReport.deviations)
             = SumOver([c \in Categories |-> Cardinality(Differing(c))], Categories)
        /\ \A f \in Range(FirstReport.deviations) :
               f.severity = DeviationSeverityOf(f.type)
        /\ \A c \in Categories : \A d \in Differing(c) :
               \E f \in Range(FirstReport.deviations) :
                   /\ f.type = d[3][3] /\ f.feature = d[1].name
                   /\ f.expected = Worded(d[3][1], d[1][d[3][1]])
                   /\ f.actual = Worded(d[3][1], d[2][d[3][2]])

\* a matched pair with a differing flag, an equal approach and a field that only
\* one side carries, reported with exactly the Deviations of the differing fields
C5_Witness ==
    /\ Succeeded
    /\ \E c \in Categories :
           LET m == MatchOf(c)
           IN  \E t \in 1..Len(m.matchedPairs) :
                   LET s == SpecList(spec, c)[m.matchedPairs[t].s]
                       i == ImplList(impl, c)[m.matchedPairs[t].i]
                   IN  /\ "configurable" \in DOMAIN s /\ "configurable" \in DOMAIN i
                       /\ s.configurable # i.configurable
                       /\ "implementation_approach" \in DOMAIN s
                       /\ "implementation_type" \in DOMAIN i
                       /\ s.implementation_approach = i.implementation_type
    /\ \E c \in Categories :
           LET m == MatchOf(c)
           IN  \E t \in 1..Len(m.matchedPairs) :
                   /\ "styling" \notin DOMAIN SpecList(spec, c)[m.matchedPairs[t].s]
                   /\ "styling" \in DOMAIN ImplList(impl, c)[m.matchedPairs[t].i]
    /\ \E f \in Range(FirstReport.deviations) : f.type = "configuration_deviation"

NoOverlap ==
    \A c \in Categories : \A k \in SpecPos(c) : \A j \in ImplPos(c) :
        ~SameName(SpecList(spec, c)[k].name, ImplList(impl, c)[j].name)

AllSpecCount == SumOver([c \in Categories |-> Len(SpecList(spec, c))], Categories)
AllImplCount == SumOver([c \in Categories |-> Len(ImplList(impl, c))], Categories)

CoversSpec(report) ==
    /\ Len(report.missing_features) = AllSpecCount
    /\ \A c \in Categories :
           LET got == OfType(report.missing_features, CategoryTag[c])
           IN  /\ Len(got) = Len(SpecList(spec, c))
               /\ \A k \in SpecPos(c) : got[k].name = SpecList(spec, c)[k].name

CoversImpl(report) ==
    /\ Len(report.extra_features) = AllImplCount
    /\ \A c \in Categories : \A j \in ImplPos(c) :
           \E f \in Range(report.extra_features) :
               f.name = ImplList(impl, c)[j].name /\ f.impact = "low"

BothSucceeded ==
    Len(results) >= 2 /\ results[1].error = "none" /\ results[2].error = "none"

Untimed(report) == [report EXCEPT !.metadata.comparison_timestamp = 0]

ReportFields == { "missing_features", "deviations", "logical_mismatches",
                  "extra_features", "summary", "metadata" }

InputLacksSomething ==
    \/ ~spec.present
    \/ ~impl.present
    \/ \E c \in Categories : SpecField[c] \notin DOMAIN spec.data
    \/ \E c \in Categories : ImplField[c] \notin DOMAIN impl.data

---------------------------------------------------------------------------
(* Properties of score, stated on the report handed to it and its Summary *)

Scored == ssummary # <<>>

Summary == ssummary[1]

Max0(x) == IF x < 0 THEN 0 ELSE x

NoFindings(r) ==
    /\ r.missing_features = <<>> /\ r.deviations = <<>>
    /\ r.logical_mismatches = <<>> /\ r.extra_features = <<>>

CountIn(findings, P(_)) == Cardinality({k \in 1..Len(findings) : P(findings[k])})

DistSum(d) == d["critical"] + d["high"] + d["medium"] + d["low"]

\* C10 as stated: the distribution counts every finding of the four lists once, a
\* Missing finding under its priority and an Extra finding under low, so that its
\* four counts add up to total_issues, the sum of the four lists' lengths.
C10_DistributionCountsFourLists ==
    Scored =>
        /\ \A sev \in Severities :
               Summary.severity_distribution[sev]
                 = CountIn(sreport.missing_features, LAMBDA f : f.priority = sev)
                   + CountIn(sreport.deviations, LAMBDA f : f.severity = sev)
                   + CountIn(sreport.logical_mismatches, LAMBDA f : f.severity = sev)
                   + (IF sev = "low" THEN Len(sreport.extra_features) ELSE 0)
        /\ DistSum(Summary.severity_distribution) = Summary.total_issues
        /\ Summary.total_issues
             = Len(sreport.missing_features) + Len(sreport.deviations)
               + Len(sreport.logical_mismatches) + Len(sreport.extra_features)

\* C10 (amended): the distribution counts every finding of missing_features,
\* deviations and logical_mismatches once, a Missing finding under its impact, and
\* no Extra finding; its four counts add up to total_issues, the sum of the lengths
\* of those three lists (extra_features are counted in extra_features_count only).
C10_DistributionCountsIssues ==
    Scored =>
        /\ \A sev \in Severities :
               Summary.severity_distribution[sev]
                 = CountIn(sreport.missing_features, LAMBDA f : f.impact = sev)
                   + CountIn(sreport.deviations, LAMBDA f : f.severity = sev)
                   + CountIn(sreport.logical_mismatches, LAMBDA f : f.severity = sev)
        /\ DistSum(Summary.severity_distribution) = Summary.total_issues
        /\ Summary.total_issues
             = Len(sreport.missing_features) + Len(sreport.deviations)
               + Len(sreport.logical_mismatches)
        /\ Summary.extra_features_count = Len(sreport.extra_features)

\* a scored report with findings in all four lists and a Missing finding whose
\* impact is not its priority
C10_Witness ==
    /\ Scored
    /\ sreport.deviations # <<>> /\ sreport.logical_mismatches # <<>>
    /\ sreport.extra_features # <<>>
    /\ \E f \in Range(sreport.missing_features) : f.impact # f.priority


---------------------------------------------------------------------------
(* Properties of score, continued                                          *)

\* C11: for the bundled example report (3 missing, 3 deviations, 2 logical
\* mismatches, 1 extra) score yields total_issues 8, the distribution critical 1,
\* high 3, medium 2, low 2, the status "Critical Issues Found" and health 33.3,
\* by the counting rules and weights that score every other report.
C11_GoldenReportSummary ==
    (Scored /\ sreport = GoldenFindings) =>
        /\ Summary.total_issues = 8
        /\ Summary.severity_distribution
             = [critical |-> 1, high |-> 3, medium |-> 2, low |-> 2]
        /\ Summary.overall_status = "Critical Issues Found"
        /\ Summary.health_score = 333
        /\ Summary.missing_features_count = 3
        /\ Summary.deviations_count = 3
        /\ Summary.logical_mismatches_count = 2
        /\ Summary.extra_features_count = 1

\* the bundled example report has been scored
C11_Witness == Scored /\ sreport = GoldenFindings /\ sprev = <<>>

StatusLabels == {"Good", "Needs Attention", "Poor", "Critical Issues Found"}

LabelFits(label, score) ==
    /\ label \in StatusLabels
    /\ label = "Good" <=> score >= 800
    /\ label = "Needs Attention" <=> (600 <= score /\ score < 800)
    /\ label = "Poor" <=> (400 <= score /\ score < 600)
    /\ label = "Critical Issues Found" <=> score < 400

\* C12: overall_status is decided by health_score alone: "Good" from 80,
\* "Needs Attention" from 60 to below 80, "Poor" from 40 to below 60, "Critical
\* Issues Found" below 40; the score lies in [0, 100] and has exactly one label.
C12_StatusByThreshold ==
    Scored =>
        /\ 0 <= Summary.health_score /\ Summary.health_score <= 1000
        /\ LabelFits(Summary.overall_status, Summary.health_score)

\* a report scored exactly 60.0, the lowest score of "Needs Attention"
C12_Witness ==
    /\ Scored
    /\ Summary.health_score = 600
    /\ Summary.overall_status = "Needs Attention"

IsSubSeq(small, big) ==
    \E f \in [1..Len(small) -> 1..Len(big)] :
        /\ \A k \in 1..Len(small) : big[f[k]] = small[k]
        /\ \A k \in 1..(Len(small) - 1) : f[k] < f[k + 1]

\* C13 as stated: recommendations holds the template of Missing, Logical Mismatch,
\* Deviation and Extra exactly when that list of the report is non-empty, the
\* templates present being in the order Missing, Logical Mismatch, Deviation, Extra.
C13_TemplatePerNonEmptyList ==
    Scored =>
        LET recs == Summary.recommendations
        IN  /\ (RecMissing \in Range(recs)) <=> (sreport.missing_features # <<>>)
            /\ (RecLogical \in Range(recs)) <=> (sreport.logical_mismatches # <<>>)
            /\ (RecDeviation \in Range(recs)) <=> (sreport.deviations # <<>>)
            /\ (\E k \in 1..Len(recs) : recs[k] \notin {RecMissing, RecLogical, RecDeviation})
                 <=> (sreport.extra_features # <<>>)
            /\ \A k \in 1..Len(recs) :
                   recs[k] \notin {RecMissing, RecLogical, RecDeviation} => k = Len(recs)
            /\ IsSubSeq(SelectSeq(recs, LAMBDA r : r \in {RecMissing, RecLogical, RecDeviation}),
                        <<RecMissing, RecLogical, RecDeviation>>)

\* C13 (amended): recommendations holds the template of Missing, Logical Mismatch
\* and Deviation exactly when that list of the report is non-empty, each once, in
\* the order Missing, Logical Mismatch, Deviation, and nothing else: extra_features
\* add no entry to it.
C13_TemplatePerIssueList ==
    Scored =>
        Summary.recommendations
          = SelectSeq(<<RecMissing, RecLogical, RecDeviation>>,
                      LAMBDA r : \/ r = RecMissing /\ sreport.missing_features # <<>>
                                 \/ r = RecLogical /\ sreport.logical_mismatches # <<>>
                                 \/ r = RecDeviation /\ sreport.deviations # <<>>)

\* a scored report with logical mismatches, deviations and an extra feature but
\* no missing feature
C13_Witness ==
    /\ Scored
    /\ sreport.missing_features = <<>>
    /\ sreport.logical_mismatches # <<>>
    /\ sreport.deviations # <<>>
    /\ sreport.extra_features # <<>>
    /\ Summary.recommendations = <<RecLogical, RecDeviation>>


---------------------------------------------------------------------------
(* Properties of a debug run                                               *)

Classified == bugs # <<>>

BugList == bugs[1]

\* the entries classify was given, source by source in its fixed order, each
\* with the id prefix of its source and what the entry is about
SourceEntries ==
    [k \in 1..Len(dinput.report.missing_features) |->
        [prefix |-> "missing", subject |-> dinput.report.missing_features[k].name]]
    \o [k \in 1..Len(dinput.report.deviations) |->
        [prefix |-> "gap", subject |-> dinput.report.deviations[k].feature]]
    \o [k \in 1..Len(dinput.report.logical_mismatches) |->
        [prefix |-> "gap",
         subject |-> LET f == dinput.report.logical_mismatches[k]
                     IN  IF "flow" \in DOMAIN f THEN f.flow ELSE f.requirement]]
    \o [k \in 1..Len(dinput.scans) |->
        [prefix |-> "quality", subject |-> << dinput.scans[k].subtype >>]]
    \o (IF dinput.log.present
        THEN [k \in 1..Len(dinput.log.data.errors) |->
                [prefix |-> "log_error", subject |-> dinput.log.data.errors[k].message]]
             \o [k \in 1..Len(dinput.log.data.performance.slow_queries) |->
                [prefix |-> "perf",
                 subject |-> dinput.log.data.performance.slow_queries[k]]]
        ELSE <<>>)
    \o (IF dinput.ui.present
        THEN [k \in 1..Len(dinput.ui.data.ui_issues) |->
                [prefix |-> "ui", subject |-> dinput.ui.data.ui_issues[k].issue]]
        ELSE <<>>)

\* C14: within one classify run the Bug ids are pairwise distinct and the ordinals
\* are 0, 1, ..., n-1, given out in creation order across the sources taken in the
\* order Missing, Deviation/Logical Mismatch, source scan, runtime errors, slow
\* queries, UI issues: the Bug of ordinal k stems from entry k+1 of that walk.
C14_OrdinalsAcrossSources ==
    Classified =>
        /\ \A i, j \in 1..Len(BugList) : i # j => BugList[i].id # BugList[j].id
        /\ {BugList[k].id.ordinal : k \in 1..Len(BugList)} = 0..(Len(BugList) - 1)
        /\ Len(BugList) = Len(SourceEntries)
        /\ \A k \in 1..Len(BugList) :
               LET b == BugList[k]
               IN  /\ b.id.ordinal + 1 \in 1..Len(SourceEntries)
                   /\ SourceEntries[b.id.ordinal + 1]
                        = [prefix |-> b.id.prefix, subject |-> b.title.subject]

\* a run whose Bugs stem from three different sources
C14_Witness ==
    /\ Classified
    /\ Cardinality({BugList[k].id.prefix : k \in 1..Len(BugList)}) = 3
    /\ \E k \in 1..Len(BugList) : BugList[k].id = BugId("ui", 2)

EntriesOf(prefix, subject) ==
    Cardinality({k \in 1..Len(SourceEntries) :
                    SourceEntries[k] = [prefix |-> prefix, subject |-> subject]})

BugsOf(prefix, subject) ==
    Cardinality({k \in 1..Len(BugList) :
                    /\ BugList[k].id.prefix = prefix
                    /\ BugList[k].title.subject = subject})

\* C15: classify returns exactly one Bug per Missing finding, Deviation, Logical
\* Mismatch, runtime error, slow query and UI issue (and per scan match): as many
\* Bugs about an entry as the inputs hold such entries, also when two entries are
\* equal or concern the same file and line, and no Bug for an Extra finding.
C15_OneBugPerEntry ==
    Classified =>
        /\ Len(BugList) = Len(SourceEntries)
        /\ \A k \in 1..Len(SourceEntries) :
               BugsOf(SourceEntries[k].prefix, SourceEntries[k].subject)
                 = EntriesOf(SourceEntries[k].prefix, SourceEntries[k].subject)
        /\ \A k \in 1..Len(BugList) :
               EntriesOf(BugList[k].id.prefix, BugList[k].title.subject) > 0

\* a run given two scan matches of different sub-rules on the same file and
\* line, one more entry, and an Extra finding
C15_Witness ==
    /\ Classified
    /\ dinput.report.extra_features # <<>>
    /\ Len(BugList) = 3
    /\ \E i, j \in 1..Len(BugList) :
           /\ i # j
           /\ BugList[i].line_number # <<>>
           /\ BugList[i].file_path = BugList[j].file_path
           /\ BugList[i].line_number = BugList[j].line_number
           /\ BugList[i].title # BugList[j].title


\* C16: every Bug classify returns has a severity among critical, major, minor
\* and info, also a Bug made from a Logical Mismatch finding or from a UI issue.
C16_BugSeverityLevels ==
    Classified =>
        \A k \in 1..Len(BugList) : BugList[k].severity \in BugSeverityLevels

Summarised == rsummary # <<>>

TheSummary == rsummary[1]

\* C17: at every point of a run each Fix's bug_id is the id of a Bug of the same
\* run, no two Fixes have the same bug_id, and no Fix belongs to a Bug whose
\* category has no generator; so total_fixes <= total_bugs in the RunSummary.
C17_FixReferentialIntegrity ==
    Classified =>
        /\ \A k \in 1..Len(fixes) :
               \E j \in 1..Len(BugList) :
                   /\ BugList[j].id = fixes[k].bug_id
                   /\ BugList[j].category \in {"Implementation Gap", "Code Quality"}
        /\ \A i, j \in 1..Len(fixes) : i # j => fixes[i].bug_id # fixes[j].bug_id
        /\ Len(fixes) <= Len(BugList)
        /\ Summarised => TheSummary.total_fixes <= TheSummary.total_bugs

\* a summarised run in which some Bugs got a Fix and some, of a category
\* without generator, did not
C17_Witness ==
    /\ Summarised
    /\ TheSummary.total_fixes = 2
    /\ TheSummary.total_bugs = 3
    /\ \E k \in 1..Len(BugList) : BugList[k].category = "Runtime Error"

\* the lines of a diff after its hunk header
DiffBody(diff) ==
    LET h == CHOOSE k \in 1..Len(diff) :
                 diff[k] = <<"@", "@">> /\ \A j \in 1..(k - 1) : diff[j] # <<"@", "@">>
    IN  SubSeq(diff, h + 1, Len(diff))

C19_CountsAddUp ==
    Summarised =>
        /\ TheSummary.bugs_by_severity["critical"] + TheSummary.bugs_by_severity["major"]
           + TheSummary.bugs_by_severity["minor"] + TheSummary.bugs_by_severity["info"]
             = TheSummary.total_bugs
        /\ TheSummary.total_bugs = Len(TheSummary.bugs)
        /\ TheSummary.total_fixes = Len(TheSummary.fixes)

\* C20 as stated: the bugs and fixes of the RunSummary are the Bug list and the
\* Fix list it was built from, element for element and in the same order.
C20_ListsPassedThrough ==
    Summarised =>
        /\ Len(TheSummary.bugs) = Len(BugList)
        /\ \A k \in 1..Len(BugList) :
               /\ DOMAIN TheSummary.bugs[k] = DOMAIN BugList[k]
               /\ \A f \in DOMAIN BugList[k] : TheSummary.bugs[k][f] = BugList[k][f]
        /\ Len(TheSummary.fixes) = Len(fixes)
        /\ \A k \in 1..Len(fixes) :
               /\ DOMAIN TheSummary.fixes[k] = DOMAIN fixes[k]
               /\ \A f \in DOMAIN fixes[k] : TheSummary.fixes[k][f] = fixes[k][f]

BugEntryFields ==
    {"id", "title", "severity", "file_path", "line_number", "category", "confidence"}

FixEntryFields == {"bug_id", "file_path", "start_line", "end_line", "lines_changed"}

\* C20 (amended): the RunSummary lists one entry per Bug and one per Fix of the
\* lists it was built from, in the same order, none added, removed or re-sorted;
\* a Bug's entry repeats the Bug's fields other than proposed_fix and says in
\* has_fix whether it has a proposed fix text; a Fix's entry repeats its bug_id,
\* file_path, start_line, end_line and lines_changed and nothing else.
C20_EntriesInOrder ==
    Summarised =>
        /\ Len(TheSummary.bugs) = Len(BugList)
        /\ \A k \in 1..Len(BugList) :
               /\ DOMAIN TheSummary.bugs[k] = BugEntryFields \cup {"has_fix"}
               /\ \A f \in BugEntryFields : TheSummary.bugs[k][f] = BugList[k][f]
               /\ TheSummary.bugs[k].has_fix = (BugList[k].proposed_fix # <<>>)
        /\ Len(TheSummary.fixes) = Len(fixes)
        /\ \A k \in 1..Len(fixes) :
               /\ DOMAIN TheSummary.fixes[k] = FixEntryFields
               /\ \A f \in FixEntryFields : TheSummary.fixes[k][f] = fixes[k][f]

\* a RunSummary of three Bugs of which two, with different snippets, have a Fix
C20_Witness ==
    /\ Summarised
    /\ Len(TheSummary.bugs) = 3
    /\ Len(TheSummary.fixes) = 2
    /\ TheSummary.fixes[1].lines_changed # TheSummary.fixes[2].lines_changed

---------------------------------------------------------------------------
(* Properties of the review of fixes in the dashboard                      *)

DataFixes == analysisData[1].fixes

SameAnalysis ==
    /\ analysisData # <<>> /\ analysisData' # <<>>
    /\ analysisData'[1].id = analysisData[1].id

\* C21: the fixes of an analysis result start pending, and while that result
\* is the one under review a fix status changes only from pending to applied
\* or from pending to rejected: an applied or rejected fix keeps its status
\* whatever the reviewer selects and clicks.
C21_StatusTerminal ==
    [][ /\ (analysisData' # <<>> /\ ~SameAnalysis) =>
               \A i \in DOMAIN DataFixes' : DataFixes'[i].status = "pending"
        /\ SameAnalysis =>
               /\ DOMAIN DataFixes' = DOMAIN DataFixes
               /\ \A i \in DOMAIN DataFixes :
                      DataFixes'[i].status # DataFixes[i].status =>
                          /\ DataFixes[i].status = "pending"
                          /\ DataFixes'[i].status \in {"applied", "rejected"}
      ]_vars

\* one fix applied, the other rejected, the applied one selected again
C21_Witness ==
    /\ analysisData # <<>>
    /\ DataFixes[1].status = "applied"
    /\ DataFixes[2].status = "rejected"
    /\ selectedFix = "fix-1"
    /\ lastCall = <<"reject", "fix-2">>
    /\ ~ActionsShown

\* C29: a call of handleApplyFix or handleRejectFix leaves the analysis id,
\* the specifications, the files, the bugs, every fix whose id is not the
\* argument and every field but status of the fix whose id is the argument
\* as they were; with analysisData null it changes nothing and hands nothing
\* to addNotification.
C29_HandlersChangeOnlyStatus ==
    [][ /\ SameAnalysis =>
               LET old == analysisData[1]
                   new == analysisData'[1]
               IN  /\ [new EXCEPT !.fixes = old.fixes] = old
                   /\ DOMAIN new.fixes = DOMAIN old.fixes
                   /\ \A i \in DOMAIN old.fixes :
                          /\ old.fixes[i].id # lastCall'[2] =>
                                 new.fixes[i] = old.fixes[i]
                          /\ [new.fixes[i] EXCEPT !.status = old.fixes[i].status]
                                 = old.fixes[i]
        /\ (analysisData = <<>> /\ lastCall' # lastCall) =>
               (analysisData' = <<>> /\ emitted' = emitted)
      ]_vars

\* the second fix was rejected while the first is still pending
C29_Witness ==
    /\ analysisData # <<>>
    /\ lastCall = <<"reject", "fix-2">>
    /\ DataFixes[2].status = "rejected"
    /\ DataFixes[1].status = "pending"
    /\ \E i \in DOMAIN emitted : emitted[i] = FixRejectedNote

CountNamed(findings, n) ==
    Cardinality({t \in 1..Len(findings) : findings[t].name = n})

\* C22: in every category, an impl entity whose name (up to case and
\* surrounding whitespace) a spec entity carries is paired with each such spec
\* entity when it is the first of its name in the impl list; when an earlier
\* impl entity has that name it is in no pair, it is in unmatchedImpl, and the
\* report holds one Extra finding per unmatched impl entity, under its name as
\* written.
C22_FirstImplOccurrenceWins ==
    Succeeded =>
        /\ \A c \in Categories :
            LET sl == SpecList(spec, c)
                il == ImplList(impl, c)
                m == MatchOf(c)
                pairs == PairsIn(m)
                wanted(j) == \E k \in SpecPos(c) : SameName(sl[k].name, il[j].name)
                first(j) == \A h \in 1..(j - 1) : ~SameName(il[h].name, il[j].name)
            IN  \A j \in ImplPos(c) :
                    wanted(j) =>
                        IF first(j)
                        THEN /\ \A k \in SpecPos(c) :
                                    SameName(sl[k].name, il[j].name) => <<k, j>> \in pairs
                             /\ j \notin Range(m.unmatchedImpl)
                        ELSE /\ \A p \in pairs : p[2] # j
                             /\ j \in Range(m.unmatchedImpl)
        /\ \A n \in Names \cup {BgSpecName, BgImplSameName, BgImplOtherName} :
               CountNamed(FirstReport.extra_features, n)
                 = SumOver([c \in Categories |->
                               LET il == ImplList(impl, c)
                                   m == MatchOf(c)
                               IN  Cardinality({j \in Range(m.unmatchedImpl) :
                                                    il[j].name = n})],
                           Categories)

\* a spec entity, and two impl entities of its name written differently: the
\* first is paired, the second is reported as extra
C22_Witness ==
    /\ Succeeded
    /\ \E c \in Categories :
           LET sl == SpecList(spec, c)
               il == ImplList(impl, c)
           IN  /\ Len(sl) = 1 /\ Len(il) = 2
               /\ il[1].name # il[2].name
               /\ SameName(sl[1].name, il[1].name)
               /\ SameName(il[1].name, il[2].name)
               /\ PairsOf(c) = {<<1, 1>>}
               /\ CountNamed(FirstReport.extra_features, il[2].name) = 1
               /\ CountNamed(FirstReport.extra_features, il[1].name) = 0

---------------------------------------------------------------------------
(* Properties of the parallel comparison                                   *)

NamesOf(findings) == [t \in 1..Len(findings) |-> findings[t].name]

\* names of the spec entities of a category that no impl entity matches, and
\* of the impl entities that are not the first match of a spec entity, both
\* in input order
UnmetSpecNames(c) ==
    LET sl == SpecList(spec, c)
        il == ImplList(impl, c)
    IN  NamesOf(SelectSeq(sl, LAMBDA e :
            \A j \in 1..Len(il) : ~SameName(e.name, il[j].name)))

UnwonImplNames(c) ==
    LET sl == SpecList(spec, c)
        il == ImplList(impl, c)
        won(j) == /\ \E k \in 1..Len(sl) : SameName(sl[k].name, il[j].name)
                  /\ \A h \in 1..(j - 1) : ~SameName(il[h].name, il[j].name)
        keep == SelectSeq(Idx(Len(il)), LAMBDA j : ~won(j))
    IN  [t \in 1..Len(keep) |-> il[keep[t]].name]

---------------------------------------------------------------------------
(* Properties of concurrent runs                                           *)

\* what a run on the given input yields by itself, its report stamped at
\* tCompare and its RunSummary at tSummary
Alone(input, tCompare, tSummary) ==
    LET rep == CompareCall(input.spec, input.impl, tCompare).output
        bs == Classify([ report |-> rep[1], scans |-> input.scans,
                         log |-> input.log, ui |-> input.ui ])
        fs == Flatten([k \in 1..Len(bs) |-> Synthesize(bs[k])])
    IN  [ report |-> rep, bugs |-> bs, fixes |-> fs,
          summary |-> << RunSummary(bs, fs, tSummary) >> ]

RunDone(r) == runs # <<>> /\ runs[r].stage = "done"

\* C24: while two runs go on side by side the generator table stays as it was
\* built, and each run that has finished holds the report, Bug list, Fix list
\* and RunSummary it yields by itself for the times at which it stamped them.
C24_RunsDoNotInterfere ==
    /\ ptable = GeneratorCategories
    /\ \A r \in Runners :
           RunDone(r) =>
               LET run == runs[r]
                   alone == Alone(run.input,
                                  run.report[1].metadata.comparison_timestamp,
                                  run.summary[1].timestamp)
               IN  /\ run.report = alone.report
                   /\ run.bugs = alone.bugs
                   /\ run.fixes = alone.fixes
                   /\ run.summary = alone.summary

\* run a has finished while run b, which started before a built its summary,
\* is still synthesizing; both have produced a Fix from the shared table
C24_Witness ==
    /\ RunDone("a")
    /\ runs["b"].stage = "synthesize"
    /\ runs["a"].input # runs["b"].input
    /\ Len(runs["a"].fixes) >= 1 /\ Len(runs["b"].fixes) >= 1
    /\ runs["b"].report[1].metadata.comparison_timestamp
         < runs["a"].summary[1].timestamp

---------------------------------------------------------------------------
(* Properties of ProjectUpload's analysis                                  *)

\* C25: from one state in which an analysis is in progress to the next such
\* state, analysisProgress does not decrease, whichever of the pending
\* enhanceSpec calls, pauses and reset timers takes the step.
C25_ProgressNeverDecreases ==
    [][ (isAnalyzing /\ isAnalyzing') => analysisProgress' >= analysisProgress ]_vars

\* C26: an analysis result built by a startAnalysis call whose own enhancement
\* succeeded carries the generated text in enhancedSpec, and a result carries
\* the placeholder only if the call's own enhancement failed.
C26_ResultCarriesGeneratedText ==
    lastResult # <<>> =>
        /\ lastResult[1].enhance = "ok" =>
               lastResult[1].result.enhancedSpec = "enhanced"
        /\ lastResult[1].result.enhancedSpec = Placeholder =>
               lastResult[1].enhance = "failed"

CallCounts == <<calls.accepted, calls.completes, calls.successes, calls.errors>>

---------------------------------------------------------------------------
(* Properties of ProjectUpload's file list                                 *)

FileIds(files) == {files[k].id : k \in DOMAIN files}

\* the status and url shown under an id
ShownAs(files, id) ==
    { <<files[k].status, files[k].url>> : k \in {j \in DOMAIN files : files[j].id = id} }

\* C28: an entry enters uploadedFiles as 'uploading' and without url; what the
\* list shows for an entry changes only from 'uploading', to 'uploaded' with a
\* url or to 'error', and no more after that; an entry leaves the list only
\* when it is not 'uploading'; and an entry that was removed is never in the
\* list again.
C28_FileEntryLifecycle ==
    [][ /\ \A k \in DOMAIN uploadedFiles' :
               uploadedFiles'[k].id \notin FileIds(uploadedFiles) =>
                   /\ uploadedFiles'[k].status = "uploading"
                   /\ uploadedFiles'[k].url = <<>>
        /\ \A id \in FileIds(uploadedFiles) \cap FileIds(uploadedFiles') :
               ShownAs(uploadedFiles', id) # ShownAs(uploadedFiles, id) =>
                   /\ ShownAs(uploadedFiles, id) = { <<"uploading", <<>> >> }
                   /\ \A s \in ShownAs(uploadedFiles', id) :
                          \/ s[1] = "uploaded" /\ s[2] # <<>>
                          \/ s[1] = "error"
        /\ \A k \in DOMAIN uploadedFiles :
               uploadedFiles[k].id \notin FileIds(uploadedFiles') =>
                   uploadedFiles[k].status # "uploading"
        /\ removed' \cap FileIds(uploadedFiles') = {}
      ]_vars

---------------------------------------------------------------------------
(* Properties of NotificationSystem                                        *)

\* C30: no timer calls onRemove for a notification of duration 0, and for a
\* notification of any other duration, or of none, a timer has called
\* onRemove with its id once more time than its duration (5000 ms for none)
\* has passed since it was added, whatever was added, dismissed or removed in
\* between.
C30_TimersRemoveInTime ==
    \A id \in DOMAIN seen :
        LET n == [id |-> id, duration |-> seen[id].duration]
        IN  IF HasTimer(n)
            THEN ntime > seen[id].at + TimerDelay(n) => id \in timedOut
            ELSE id \notin timedOut

\* a notification without duration was added, a second one of duration 0 was
\* added two seconds later, and after more than five seconds the first has
\* been removed by its timer while the second is still shown
C30_Witness ==
    /\ Len(seen) = 2
    /\ seen[1] = [duration |-> <<>>, at |-> 0]
    /\ seen[2] = [duration |-> <<0>>, at |-> 2000]
    /\ ntime = 6000
    /\ timedOut = {1}
    /\ notifications = << [id |-> 2, duration |-> <<0>>] >>

====
